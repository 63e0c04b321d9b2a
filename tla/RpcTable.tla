------------------------------ MODULE RpcTable ------------------------------
(***************************************************************************)
(* The 64 RPC stubs of the CryptoCell library (libcc54/generated), as      *)
(* data.  All stubs have one shape (see RpcStub); what tells them apart is *)
(* their parameters.  For each function there is                           *)
(*   - its message: the params structure of the _seprpc.h header, with the *)
(*     numbers it is sent under and the room of its arrays, in elements;   *)
(*   - its stub: the parameters in the order in which the _stub.c checks   *)
(*     and copies them.  Plain values, which are only copied, appear where *)
(*     they are the size of an array.                                      *)
(***************************************************************************)
EXTENDS Integers, Sequences, TLC

CONSTANT RsaKeyBits   \* CRYS_RSA_MAX_VALID_KEY_SIZE_VALUE_IN_BITS
ASSUME RsaKeyAssumption == RsaKeyBits \in {2048, 3072}

ModBytes     == 4 * ((RsaKeyBits + 64) \div 32)
DhMax        == RsaKeyBits \div 8
PrimeWords   == (2048 \div 32) \div 2
OaepLabelMax == 2048
EccBytes     == 4 * 18
AesWrapMax   == 512
AesWrapBlock == 8
KdfSecretMax == 512
KdfKeyingMax == 2048
OtherInfoMax == 64
Rc4KeyMax    == 20
RndMax       == 3 * 1024
UuidBytes    == 16

-----------------------------------------------------------------------------
(* Sizes: a number n of elements or an argument, in its unit.  An argument *)
(* behind a pointer or in a key is there only if "via" is not NULL.        *)
Always == "no pointer"
Size(unit, of, via, n) == [unit |-> unit, of |-> of, via |-> via, n |-> n]
Exactly(n)   == Size("elements", Always, Always, n)
Arg(a)       == Size("bytes", a, Always, 0)
Bits(a)      == Size("bits", a, Always, 0)       \* (a + 7) / 8
Words(a)     == Size("words", a, Always, 0)      \* a / 32
At(p)        == Size("bytes", p, p, 0)
CtxBytes(p)  == Size("bytes", p, p, 0)           \* nSizeInBytes of a context
KeyBits(p)   == Size("bits", p, p, 0)            \* (nSizeInBits + 7) / 8
KeyBytes(p)  == Size("floor", p, p, 0)           \* nSizeInBits / 8

(* Parameters.                                                             *)
Param(kind, field, ptr, dir, size, bound) ==
  [kind |-> kind, field |-> field, ptr |-> ptr, dir |-> dir, size |-> size, bound |-> bound,
   guarded |-> FALSE, tested |-> TRUE, context |-> FALSE]
In(p, size, bound)    == Param("array", p, p, {"in"}, size, bound)
Out(p, size, bound)   == Param("array", p, p, {"out"}, size, bound)
InOut(p, size, bound) == Param("array", p, p, {"in", "out"}, size, bound)
Ref(p, dir)           == Param("ref", p, p, dir, Exactly(1), 1)
RefIn(p)              == Ref(p, {"in"})
RefOut(p)             == Ref(p, {"out"})
RefInOut(p)           == Ref(p, {"in", "out"})
MemIn(p)              == Param("memref", p, Always, {"in"}, Exactly(0), 0)
MemOut(p)             == Param("memref", p, Always, {"out"}, Exactly(0), 0)

(* The size is compared with the array once more before it is copied back. *)
GuardedOut(p, size, bound) == [Out(p, size, bound) EXCEPT !.guarded = TRUE]
(* The pointer the size is behind is not compared with NULL.               *)
Untested(param)    == [param EXCEPT !.tested = FALSE]
(* The context of a multi-call operation, which travels with each call.    *)
Ctx(p)             == [RefInOut(p) EXCEPT !.context = TRUE]
(* CRYS_KDF_OtherInfo_t, each entry with its size beside it.               *)
OtherInfo(p) ==
  LET Entry(f, size) == Param("array", f, p, {"in"}, Arg(size), OtherInfoMax)
  IN  <<Entry("AlgorithmID", "SizeOfAlgorithmID"), Entry("PartyUInfo", "SizeOfPartyUInfo"),
        Entry("PartyVInfo", "SizeOfPartyVInfo"), Entry("SuppPrivInfo", "SizeOfSuppPrivInfo"),
        Entry("SuppPubInfo", "SizeOfSuppPubInfo")>>
OtherInfoRoom == [f \in {"AlgorithmID", "PartyUInfo", "PartyVInfo", "SuppPrivInfo", "SuppPubInfo"}
                    |-> OtherInfoMax]

(* Messages: SEPRPC_AGENT_ID_..., SEPRPC_FUNC_ID_..., the number of memory  *)
(* references, and the room of every array of the params structure.        *)
CrysAes       == 1
CrysRsa       == 2
AppletMngLoad == 3
CrysEcc       == 4
CrysRc4       == 5
DxManagement  == 6
CrysRnd       == 7
CrysKdf       == 8
CrysDh        == 9
CrysSelfTest  == 10
NoArrays == [f \in {} |-> 0]
Message(agent, func, memrefs, room) ==
  [agent |-> agent, func |-> func, memrefs |-> memrefs, room |-> room]

-----------------------------------------------------------------------------
(* Applet loading (applet_mng_seprpc)                                      *)
DX_CC_LoadAppletParams ==
  Message(AppletMngLoad, 1, 0, NoArrays)
DX_CC_LoadApplet ==
  <<>>
DX_CC_UnloadAppletParams ==
  Message(AppletMngLoad, 2, 0, [uuid |-> UuidBytes])
DX_CC_UnloadApplet ==
  <<In("uuid", Exactly(UuidBytes), UuidBytes)>>
-----------------------------------------------------------------------------
(* AES key wrapping (crys_aes_seprpc)                                      *)
CRYS_AES_WrapParams ==
  Message(CrysAes, 1, 0,
          [DataIn_ptr |-> AesWrapMax, KeyData |-> 32,
           WrapDataOut_ptr |-> AesWrapMax + AesWrapBlock])
CRYS_AES_Wrap ==
  <<In("DataIn_ptr", Arg("DataInLen"), AesWrapMax),
    In("KeyData", Exactly(32), 32), RefInOut("WrapDataLen_ptr"),
    Out("WrapDataOut_ptr", At("WrapDataLen_ptr"), AesWrapMax + AesWrapBlock)>>
CRYS_AES_UnwrapParams ==
  Message(CrysAes, 2, 0,
          [WrapDataIn_ptr |-> AesWrapMax + AesWrapBlock, KeyData |-> 32,
           DataOut_ptr |-> AesWrapMax])
CRYS_AES_Unwrap ==
  <<In("WrapDataIn_ptr", Arg("WrapDataInLen"), AesWrapMax + AesWrapBlock),
    In("KeyData", Exactly(32), 32), RefInOut("DataOutLen_ptr"),
    Out("DataOut_ptr", At("DataOutLen_ptr"), AesWrapMax)>>
-----------------------------------------------------------------------------
(* Diffie-Hellman (crys_dh_seprpc)                                         *)
DX_DH_GeneratePubPrvParams ==
  Message(CrysDh, 1, 0,
          [Generator_ptr |-> DhMax, Prime_ptr |-> DhMax, Q_ptr |-> DhMax,
           ClientPrvKey_ptr |-> DhMax, ClientPub1_ptr |-> DhMax])
DX_DH_GeneratePubPrv ==
  <<In("Generator_ptr", Arg("GeneratorSize"), DhMax),
    In("Prime_ptr", Arg("PrimeSize"), DhMax), In("Q_ptr", Arg("QSize"), DhMax),
    RefIn("tmpPubKey_ptr"), RefInOut("ClientPrvKeySize_ptr"),
    RefInOut("ClientPubSize_ptr"),
    GuardedOut("ClientPrvKey_ptr", At("ClientPrvKeySize_ptr"), DhMax),
    GuardedOut("ClientPub1_ptr", At("ClientPubSize_ptr"), DhMax)>>
CRYS_DH_GetSecretKeyParams ==
  Message(CrysDh, 2, 0,
          [ClientPrvKey_ptr |-> DhMax, ServerPubKey_ptr |-> DhMax,
           Prime_ptr |-> DhMax, SecretKey_ptr |-> DhMax])
CRYS_DH_GetSecretKey ==
  <<In("ClientPrvKey_ptr", Arg("ClientPrvKeySize"), DhMax),
    In("ServerPubKey_ptr", Arg("ServerPubKeySize"), DhMax),
    In("Prime_ptr", Arg("PrimeSize"), DhMax), RefIn("tmpPubKey_ptr"),
    RefInOut("SecretKeySize_ptr"),
    GuardedOut("SecretKey_ptr", At("SecretKeySize_ptr"), DhMax)>>
CRYS_DH_CheckPubKeyParams ==
  Message(CrysDh, 3, 0,
          [modP_ptr |-> DhMax, orderQ_ptr |-> DhMax, pubKey_ptr |-> DhMax])
CRYS_DH_CheckPubKey ==
  <<In("modP_ptr", Arg("modPsizeBytes"), DhMax),
    In("orderQ_ptr", Arg("orderQsizeBytes"), DhMax),
    In("pubKey_ptr", Arg("pubKeySizeBytes"), DhMax)>>
CRYS_DH_X942_GetSecretDataParams ==
  Message(CrysDh, 4, 0,
          [ClientPrvKey_ptr |-> DhMax, ServerPubKey_ptr |-> DhMax,
           Prime_ptr |-> DhMax,
           SecretKeyingData_ptr |-> DhMax] @@ OtherInfoRoom)
CRYS_DH_X942_GetSecretData ==
  <<In("ClientPrvKey_ptr", Arg("ClientPrvKeySize"), DhMax),
    In("ServerPubKey_ptr", Arg("ServerPubKeySize"), DhMax),
    In("Prime_ptr", Arg("PrimeSize"), DhMax)>>
  \o OtherInfo("otherInfo_ptr")
  \o <<GuardedOut("SecretKeyingData_ptr", Arg("SecretKeyingDataSize"), DhMax)>>
CRYS_DH_X942_HybridGetSecretDataParams ==
  Message(CrysDh, 5, 0,
          [ClientPrvKey_ptr1 |-> DhMax, ClientPrvKey_ptr2 |-> DhMax,
           ServerPubKey_ptr1 |-> DhMax, ServerPubKey_ptr2 |-> DhMax,
           Prime_ptr |-> DhMax,
           SecretKeyingData_ptr |-> DhMax] @@ OtherInfoRoom)
CRYS_DH_X942_HybridGetSecretData ==
  <<In("ClientPrvKey_ptr1", Arg("ClientPrvKeySize1"), DhMax),
    In("ClientPrvKey_ptr2", Arg("ClientPrvKeySize2"), DhMax),
    In("ServerPubKey_ptr1", Arg("ServerPubKeySize1"), DhMax),
    In("ServerPubKey_ptr2", Arg("ServerPubKeySize2"), DhMax),
    In("Prime_ptr", Arg("PrimeSize"), DhMax)>>
  \o OtherInfo("otherInfo_ptr")
  \o <<GuardedOut("SecretKeyingData_ptr", Arg("SecretKeyingDataSize"), DhMax)>>
CRYS_DH_CreateDomainParamsParams ==
  Message(CrysDh, 6, 0,
          [seedS_ptr |-> DhMax, modP_ptr |-> DhMax, orderQ_ptr |-> DhMax,
           generatorG_ptr |-> DhMax, factorJ_ptr |-> DhMax])
CRYS_DH_CreateDomainParams ==
  <<RefInOut("generGsizeBytes_ptr"), RefInOut("JsizeBytes_ptr"),
    InOut("seedS_ptr", Bits("seedSizeBits"), DhMax),
    Out("modP_ptr", Bits("modPsizeBits"), DhMax),
    Out("orderQ_ptr", Bits("orderQsizeBits"), DhMax),
    Out("generatorG_ptr", At("generGsizeBytes_ptr"), DhMax),
    Out("factorJ_ptr", At("JsizeBytes_ptr"), DhMax),
    RefOut("pgenCounter_ptr")>>
CRYS_DH_CheckDomainParamsParams ==
  Message(CrysDh, 7, 0,
          [modP_ptr |-> DhMax, orderQ_ptr |-> DhMax, generatorG_ptr |-> DhMax,
           seedS_ptr |-> DhMax])
CRYS_DH_CheckDomainParams ==
  <<In("modP_ptr", Arg("modPsizeBytes"), DhMax),
    In("orderQ_ptr", Arg("orderQsizeBytes"), DhMax),
    In("generatorG_ptr", Arg("generatorSizeBytes"), DhMax),
    In("seedS_ptr", Bits("seedSizeBits"), DhMax)>>
-----------------------------------------------------------------------------
(* Elliptic curves (crys_ecc_seprpc)                                       *)
CRYS_ECPKI_BuildPrivKeyParams ==
  Message(CrysEcc, 1, 0, [PrivKeyIn_ptr |-> EccBytes + 2])
CRYS_ECPKI_BuildPrivKey ==
  <<In("PrivKeyIn_ptr", Arg("PrivKeySizeInBytes"), EccBytes + 2),
    RefOut("UserPrivKey_ptr")>>
DX_ECPKI_BuildPublKeyParams ==
  Message(CrysEcc, 2, 0, [PublKeyIn_ptr |-> 2 * EccBytes + 2])
DX_ECPKI_BuildPublKey ==
  <<In("PublKeyIn_ptr", Arg("PublKeySizeInBytes"), 2 * EccBytes + 2),
    RefOut("UserPublKey_ptr")>>
CRYS_ECDSA_SignInitParams ==
  Message(CrysEcc, 3, 0, NoArrays)
CRYS_ECDSA_SignInit ==
  <<RefIn("SignerPrivKey_ptr"), Ctx("SignUserContext_ptr")>>
CRYS_ECDSA_SignUpdateParams ==
  Message(CrysEcc, 4, 1, NoArrays)
CRYS_ECDSA_SignUpdate ==
  <<Ctx("SignUserContext_ptr"), MemIn("MessageDataIn_ptr")>>
DX_ECDSA_SignFinishParams ==
  Message(CrysEcc, 5, 0,
          [EphemerKeyData_ptr |-> 3 * EccBytes + 4,
           SignatureOut_ptr |-> 2 * EccBytes + 2])
DX_ECDSA_SignFinish ==
  <<RefIn("SignUserContext_ptr"),
    In("EphemerKeyData_ptr", Exactly(3 * EccBytes + 4), 3 * EccBytes + 4),
    RefInOut("SignatureOutSize_ptr"),
    Out("SignatureOut_ptr", At("SignatureOutSize_ptr"), 2 * EccBytes + 2)>>
CRYS_ECDSA_SignParams ==
  Message(CrysEcc, 6, 1, [SignatureOut_ptr |-> 2 * EccBytes + 2])
CRYS_ECDSA_Sign ==
  <<RefIn("SignerPrivKey_ptr"), RefInOut("SignatureOutSize_ptr"),
    Out("SignatureOut_ptr", At("SignatureOutSize_ptr"), 2 * EccBytes + 2),
    MemIn("MessageDataIn_ptr")>>
CRYS_ECDSA_VerifyInitParams ==
  Message(CrysEcc, 7, 0, NoArrays)
CRYS_ECDSA_VerifyInit ==
  <<RefIn("SignerPublKey_ptr"), Ctx("VerifyUserContext_ptr")>>
CRYS_ECDSA_VerifyUpdateParams ==
  Message(CrysEcc, 8, 1, NoArrays)
CRYS_ECDSA_VerifyUpdate ==
  <<Ctx("VerifyUserContext_ptr"), MemIn("MessageDataIn_ptr")>>
CRYS_ECDSA_VerifyFinishParams ==
  Message(CrysEcc, 9, 0, [SignatureIn_ptr |-> 2 * EccBytes])
CRYS_ECDSA_VerifyFinish ==
  <<In("SignatureIn_ptr", Arg("SignatureSizeBytes"), 2 * EccBytes),
    Ctx("VerifyUserContext_ptr")>>
CRYS_ECDSA_VerifyParams ==
  Message(CrysEcc, 10, 1, [SignatureIn_ptr |-> 2 * EccBytes])
CRYS_ECDSA_Verify ==
  <<RefIn("UserPublKey_ptr"),
    In("SignatureIn_ptr", Arg("SignatureSizeBytes"), 2 * EccBytes),
    MemIn("MessageDataIn_ptr")>>
DX_ECPKI_ELGAMAL_EncryptParams ==
  Message(CrysEcc, 11, 0,
          [MessageIn_ptr |-> EccBytes, EphemerPrivKeyIn_ptr |-> EccBytes,
           EncrMessageOut_ptr |-> 4 * EccBytes])
DX_ECPKI_ELGAMAL_Encrypt ==
  <<RefIn("ReceiverUserPublKey_ptr"),
    In("MessageIn_ptr", Arg("MessageInSizeBytes"), EccBytes),
    In("EphemerPrivKeyIn_ptr", Arg("EphemerPrivKeySizeBytes"), EccBytes),
    RefIn("TempData_ptr"), RefInOut("EncrMessOutSize_ptr"),
    Out("EncrMessageOut_ptr", At("EncrMessOutSize_ptr"), 4 * EccBytes)>>
CRYS_ECPKI_ELGAMAL_DecryptParams ==
  Message(CrysEcc, 12, 0,
          [EncrMessageIn_ptr |-> 4 * EccBytes,
           DecrMessageOut_ptr |-> 4 * EccBytes])
CRYS_ECPKI_ELGAMAL_Decrypt ==
  <<RefIn("ReceiverUserPrivKey_ptr"),
    In("EncrMessageIn_ptr", Arg("EncrMessageSizeInBytes"), 4 * EccBytes),
    RefInOut("DecrMessageOutSize_ptr"),
    Out("DecrMessageOut_ptr", At("DecrMessageOutSize_ptr"), 4 * EccBytes)>>
CRYS_ECDH_SVDP_DHParams ==
  Message(CrysEcc, 13, 0, [SharedSecretValue_ptr |-> EccBytes])
CRYS_ECDH_SVDP_DH ==
  <<RefIn("PartnerPublKey_ptr"), RefIn("UserPrivKey_ptr"),
    RefInOut("SharedSecrValSize_ptr"),
    Out("SharedSecretValue_ptr", At("SharedSecrValSize_ptr"), EccBytes)>>
CRYS_ECPKI_ExportPublKeyParams ==
  Message(CrysEcc, 14, 0, [ExternPublKey_ptr |-> 2 * EccBytes + 1])
CRYS_ECPKI_ExportPublKey ==
  <<RefIn("UserPublKey_ptr"), RefInOut("PublKeySizeInBytes_ptr"),
    Out("ExternPublKey_ptr", At("PublKeySizeInBytes_ptr"), 2 * EccBytes + 1)>>
CRYS_ECPKI_GenKeyPairParams ==
  Message(CrysEcc, 15, 0, NoArrays)
CRYS_ECPKI_GenKeyPair ==
  <<RefOut("UserPrivKey_ptr"), RefOut("UserPublKey_ptr")>>
-----------------------------------------------------------------------------
(* Key derivation (crys_kdf_seprpc)                                        *)
DX_KDF_KeyDerivFuncParams ==
  Message(CrysKdf, 1, 0,
          [ZZSecret_ptr |-> KdfSecretMax,
           KeyingData_ptr |-> KdfKeyingMax] @@ OtherInfoRoom)
DX_KDF_KeyDerivFunc ==
  <<In("ZZSecret_ptr", Arg("ZZSecretSize"), KdfSecretMax)>>
  \o OtherInfo("OtherInfo_ptr")
  \o <<Out("KeyingData_ptr", Arg("KeyingDataSizeBytes"), KdfKeyingMax)>>
-----------------------------------------------------------------------------
(* RC4 (crys_rc4_seprpc)                                                   *)
CRYS_RC4_InitParams ==
  Message(CrysRc4, 1, 0, [Key_ptr |-> Rc4KeyMax])
CRYS_RC4_Init ==
  <<In("Key_ptr", Arg("KeySizeInBytes"), Rc4KeyMax), Ctx("ContextID_ptr")>>
CRYS_RC4_StreamParams ==
  Message(CrysRc4, 2, 2, NoArrays)
CRYS_RC4_Stream ==
  <<Ctx("ContextID_ptr"), MemIn("DataIn_ptr"), MemOut("DataOut_ptr")>>
CRYS_RC4_FreeParams ==
  Message(CrysRc4, 3, 0, NoArrays)
CRYS_RC4_Free ==
  <<Ctx("ContextID_ptr")>>
CRYS_RC4Params ==
  Message(CrysRc4, 4, 2, [Key_ptr |-> Rc4KeyMax])
CRYS_RC4 ==
  <<In("Key_ptr", Arg("KeySizeInBytes"), Rc4KeyMax), MemIn("DataIn_ptr"),
    MemOut("DataOut_ptr")>>
-----------------------------------------------------------------------------
(* Random numbers (crys_rnd_seprpc)                                        *)
CRYS_RND_InstantiationParams ==
  Message(CrysRnd, 1, 0, NoArrays)
CRYS_RND_Instantiation ==
  <<RefInOut("entrEstimBuff_ptr")>>
CRYS_RND_ReseedingParams ==
  Message(CrysRnd, 2, 0, NoArrays)
CRYS_RND_Reseeding ==
  <<RefInOut("entrEstimBuff_ptr")>>
CRYS_RND_GenerateVectorParams ==
  Message(CrysRnd, 3, 0, [Output_ptr |-> RndMax])
CRYS_RND_GenerateVector ==
  <<GuardedOut("Output_ptr", Arg("RndSize"), RndMax)>>
CRYS_RND_GenerateVectorInRangeParams ==
  Message(CrysRnd, 4, 0, [MaxVect_ptr |-> RndMax, RndVect_ptr |-> RndMax])
CRYS_RND_GenerateVectorInRange ==
  <<In("MaxVect_ptr", Exactly(RndMax), RndMax),
    Out("RndVect_ptr", Bits("RndSizeInBits"), RndMax)>>
CRYS_RND_AddAdditionalInputParams ==
  Message(CrysRnd, 5, 0, [AdditonalInput_ptr |-> 32])
CRYS_RND_AddAdditionalInput ==
  <<In("AdditonalInput_ptr", Arg("AdditonalInputSize"), 32)>>
CRYS_RND_UnInstantiationParams ==
  Message(CrysRnd, 6, 0, NoArrays)
CRYS_RND_UnInstantiation ==
  <<>>
-----------------------------------------------------------------------------
(* RSA (crys_rsa_seprpc)                                                   *)
CRYS_RSA_PRIM_EncryptParams ==
  Message(CrysRsa, 1, 0, [Data_ptr |-> ModBytes, Output_ptr |-> ModBytes])
CRYS_RSA_PRIM_Encrypt ==
  <<RefIn("UserPubKey_ptr"), In("Data_ptr", Arg("DataSize"), ModBytes),
    Out("Output_ptr", KeyBytes("UserPubKey_ptr"), ModBytes)>>
CRYS_RSA_PRIM_DecryptParams ==
  Message(CrysRsa, 2, 0, [Data_ptr |-> ModBytes, Output_ptr |-> ModBytes])
CRYS_RSA_PRIM_Decrypt ==
  <<RefIn("UserPrivKey_ptr"), In("Data_ptr", Arg("DataSize"), ModBytes),
    Out("Output_ptr", KeyBytes("UserPrivKey_ptr"), ModBytes)>>
DX_RSA_SCHEMES_EncryptParams ==
  Message(CrysRsa, 3, 0,
          [L |-> OaepLabelMax, DataIn_ptr |-> ModBytes,
           Output_ptr |-> ModBytes])
DX_RSA_SCHEMES_Encrypt ==
  <<RefIn("UserPubKey_ptr"), In("L", Arg("Llen"), OaepLabelMax),
    In("DataIn_ptr", Arg("DataInSize"), ModBytes),
    Out("Output_ptr", KeyBytes("UserPubKey_ptr"), ModBytes)>>
DX_RSA_SCHEMES_DecryptParams ==
  Message(CrysRsa, 4, 0,
          [L |-> OaepLabelMax, DataIn_ptr |-> ModBytes,
           Output_ptr |-> ModBytes])
DX_RSA_SCHEMES_Decrypt ==
  <<RefIn("UserPrivKey_ptr"), In("L", Arg("Llen"), OaepLabelMax),
    In("DataIn_ptr", Arg("DataInSize"), ModBytes), RefInOut("OutputSize_ptr"),
    GuardedOut("Output_ptr", At("OutputSize_ptr"), ModBytes)>>
DX_RSA_SignInitParams ==
  Message(CrysRsa, 5, 0, NoArrays)
DX_RSA_SignInit ==
  <<RefIn("UserPrivKey_ptr"), Ctx("UserContext_ptr")>>
DX_RSA_SignFinishParams ==
  Message(CrysRsa, 6, 0, [Output_ptr |-> ModBytes])
DX_RSA_SignFinish ==
  <<Ctx("UserContext_ptr"), RefInOut("OutputSize_ptr"),
    GuardedOut("Output_ptr", At("OutputSize_ptr"), ModBytes)>>
DX_RSA_SignUpdateParams ==
  Message(CrysRsa, 7, 1, NoArrays)
DX_RSA_SignUpdate ==
  <<Ctx("UserContext_ptr"), MemIn("DataIn_ptr")>>
DX_RSA_SignParams ==
  Message(CrysRsa, 8, 1, [Output_ptr |-> ModBytes])
DX_RSA_Sign ==
  <<RefIn("UserPrivKey_ptr"), RefInOut("OutputSize_ptr"),
    GuardedOut("Output_ptr", At("OutputSize_ptr"), ModBytes),
    MemIn("DataIn_ptr")>>
DX_RSA_VerifyInitParams ==
  Message(CrysRsa, 9, 0, NoArrays)
DX_RSA_VerifyInit ==
  <<RefIn("UserPubKey_ptr"), RefOut("UserContext_ptr")>>
DX_RSA_VerifyUpdateParams ==
  Message(CrysRsa, 10, 1, NoArrays)
DX_RSA_VerifyUpdate ==
  <<Ctx("UserContext_ptr"), MemIn("DataIn_ptr")>>
DX_RSA_VerifyFinishParams ==
  Message(CrysRsa, 11, 0, [Sig_ptr |-> ModBytes])
DX_RSA_VerifyFinish ==
  <<Untested(In("Sig_ptr", CtxBytes("UserContext_ptr"), ModBytes)),
    Ctx("UserContext_ptr")>>
DX_RSA_VerifyParams ==
  Message(CrysRsa, 12, 1, [Sig_ptr |-> ModBytes])
DX_RSA_Verify ==
  <<RefIn("UserPubKey_ptr"),
    In("Sig_ptr", KeyBits("UserPubKey_ptr"), ModBytes), MemIn("DataIn_ptr")>>
CRYS_RSA_Build_PubKeyParams ==
  Message(CrysRsa, 13, 0,
          [Exponent_ptr |-> ModBytes, Modulus_ptr |-> ModBytes])
CRYS_RSA_Build_PubKey ==
  <<In("Exponent_ptr", Arg("ExponentSize"), ModBytes),
    In("Modulus_ptr", Arg("ModulusSize"), ModBytes), RefOut("UserPubKey_ptr")>>
CRYS_RSA_Build_PrivKeyParams ==
  Message(CrysRsa, 14, 0,
          [PrivExponent_ptr |-> ModBytes, PubExponent_ptr |-> ModBytes,
           Modulus_ptr |-> ModBytes])
CRYS_RSA_Build_PrivKey ==
  <<In("PrivExponent_ptr", Arg("PrivExponentSize"), ModBytes),
    In("PubExponent_ptr", Arg("PubExponentSize"), ModBytes),
    In("Modulus_ptr", Arg("ModulusSize"), ModBytes),
    RefOut("UserPrivKey_ptr")>>
CRYS_RSA_Build_PrivKeyCRTParams ==
  Message(CrysRsa, 15, 0,
          [P_ptr |-> ModBytes, Q_ptr |-> ModBytes, dP_ptr |-> ModBytes,
           dQ_ptr |-> ModBytes, qInv_ptr |-> ModBytes])
CRYS_RSA_Build_PrivKeyCRT ==
  <<In("P_ptr", Arg("PSize"), ModBytes),
    In("Q_ptr", Arg("PSize"), ModBytes),
    In("dP_ptr", Arg("PSize"), ModBytes),
    In("dQ_ptr", Arg("PSize"), ModBytes),
    In("qInv_ptr", Arg("PSize"), ModBytes),
    RefOut("UserPrivKey_ptr")>>
CRYS_RSA_KG_GenerateKeyPairParams ==
  Message(CrysRsa, 16, 0, [pubExp_ptr |-> ModBytes])
CRYS_RSA_KG_GenerateKeyPair ==
  <<In("pubExp_ptr", Arg("pubExpSizeInBytes"), ModBytes),
    RefOut("UserPrivKey_ptr"), RefOut("userPubKey_ptr")>>
CRYS_RSA_KG_GenerateKeyPairCRTParams ==
  Message(CrysRsa, 17, 0, [pubExp_ptr |-> 2 * ModBytes + 1])
CRYS_RSA_KG_GenerateKeyPairCRT ==
  <<In("pubExp_ptr", Arg("pubExpSizeInBytes"), 2 * ModBytes + 1),
    RefOut("UserPrivKey_ptr"), RefOut("userPubKey_ptr")>>
CRYS_RSA_Get_PubKeyParams ==
  Message(CrysRsa, 18, 0,
          [Exponent_ptr |-> ModBytes - 1, Modulus_ptr |-> ModBytes - 1])
CRYS_RSA_Get_PubKey ==
  <<RefIn("UserPubKey_ptr"), RefInOut("ExponentSize_ptr"),
    RefInOut("ModulusSize_ptr"),
    GuardedOut("Exponent_ptr", At("ExponentSize_ptr"), ModBytes - 1),
    GuardedOut("Modulus_ptr", At("ModulusSize_ptr"), ModBytes - 1)>>
CRYS_RSA_Get_ModSizeFromPubKeyParams ==
  Message(CrysRsa, 19, 0, NoArrays)
CRYS_RSA_Get_ModSizeFromPubKey ==
  <<RefIn("userPubKey_ptr"), RefOut("ModulusSize_ptr")>>
CRYS_RSA_PRIM_DecryptExactSizeParams ==
  Message(CrysRsa, 20, 0, [DataIn_ptr |-> ModBytes, Output_ptr |-> ModBytes])
CRYS_RSA_PRIM_DecryptExactSize ==
  <<RefIn("UserPrivKey_ptr"), In("DataIn_ptr", Arg("DataOutSize"), ModBytes),
    GuardedOut("Output_ptr", Arg("DataOutSize"), ModBytes)>>
CRYS_RSA_InvModWordParams ==
  Message(CrysRsa, 21, 0, NoArrays)
CRYS_RSA_InvModWord ==
  <<RefOut("invMod_ptr")>>
CRYS_RSA_KG_GeneratePQprimesParams ==
  Message(CrysRsa, 22, 0,
          [pubExp_ptr |-> 2 * ModBytes + 1, p_ptr |-> PrimeWords,
           q_ptr |-> PrimeWords])
CRYS_RSA_KG_GeneratePQprimes ==
  <<In("pubExp_ptr", Arg("pubExpSizeInBytes"), 2 * ModBytes + 1),
    RefIn("keyGenData_ptr"),
    Out("p_ptr", Words("primeSizeInBits"), PrimeWords),
    Out("q_ptr", Words("primeSizeInBits"), PrimeWords)>>
CRYS_RSA_KG_CalculateKeyPairFromPQParams ==
  Message(CrysRsa, 23, 0,
          [pubExp_ptr |-> ModBytes, p_ptr |-> PrimeWords, q_ptr |-> PrimeWords])
CRYS_RSA_KG_CalculateKeyPairFromPQ ==
  <<In("pubExp_ptr", Arg("pubExpSizeInBytes"), ModBytes),
    In("p_ptr", Words("primeSizeInBits"), PrimeWords),
    In("q_ptr", Words("primeSizeInBits"), PrimeWords), RefIn("keyGenData_ptr"),
    RefOut("UserPrivKey_ptr"), RefOut("userPubKey_ptr")>>
DX_RSA_KG_ExtendGenerateKeyPairParams ==
  Message(CrysRsa, 24, 0, [pubExp_ptr |-> ModBytes])
DX_RSA_KG_ExtendGenerateKeyPair ==
  <<In("pubExp_ptr", Arg("pubExpSizeInBytes"), ModBytes),
    RefIn("keyGenData_ptr"), RefOut("UserPrivKey_ptr"),
    RefOut("userPubKey_ptr")>>
-----------------------------------------------------------------------------
(* Self test (crys_self_test_seprpc)                                       *)
CRYS_SelfTestParams ==
  Message(CrysSelfTest, 1, 0, NoArrays)
CRYS_SelfTest ==
  <<RefOut("enginesTestResult_ptr")>>
-----------------------------------------------------------------------------
(* Device management (management_apis_seprpc)                              *)
DX_MNG_GetLcsParams ==
  Message(DxManagement, 1, 0, NoArrays)
DX_MNG_GetLcs ==
  <<RefOut("lcsVal")>>
DX_MNG_GetFwVersionParams ==
  Message(DxManagement, 2, 0, NoArrays)
DX_MNG_GetFwVersion ==
  <<RefOut("fwVer"), RefOut("romVer")>>
-----------------------------------------------------------------------------
(* The library.                                                            *)
Stub(params, message) == [params |-> params, message |-> message]
AllStubs ==
  [DX_CC_LoadApplet |-> Stub(DX_CC_LoadApplet, DX_CC_LoadAppletParams),
   DX_CC_UnloadApplet |-> Stub(DX_CC_UnloadApplet, DX_CC_UnloadAppletParams),
   CRYS_AES_Wrap |-> Stub(CRYS_AES_Wrap, CRYS_AES_WrapParams),
   CRYS_AES_Unwrap |-> Stub(CRYS_AES_Unwrap, CRYS_AES_UnwrapParams),
   DX_DH_GeneratePubPrv |-> Stub(DX_DH_GeneratePubPrv, DX_DH_GeneratePubPrvParams),
   CRYS_DH_GetSecretKey |-> Stub(CRYS_DH_GetSecretKey, CRYS_DH_GetSecretKeyParams),
   CRYS_DH_CheckPubKey |-> Stub(CRYS_DH_CheckPubKey, CRYS_DH_CheckPubKeyParams),
   CRYS_DH_X942_GetSecretData |-> Stub(CRYS_DH_X942_GetSecretData, CRYS_DH_X942_GetSecretDataParams),
   CRYS_DH_X942_HybridGetSecretData |-> Stub(CRYS_DH_X942_HybridGetSecretData, CRYS_DH_X942_HybridGetSecretDataParams),
   CRYS_DH_CreateDomainParams |-> Stub(CRYS_DH_CreateDomainParams, CRYS_DH_CreateDomainParamsParams),
   CRYS_DH_CheckDomainParams |-> Stub(CRYS_DH_CheckDomainParams, CRYS_DH_CheckDomainParamsParams),
   CRYS_ECPKI_BuildPrivKey |-> Stub(CRYS_ECPKI_BuildPrivKey, CRYS_ECPKI_BuildPrivKeyParams),
   DX_ECPKI_BuildPublKey |-> Stub(DX_ECPKI_BuildPublKey, DX_ECPKI_BuildPublKeyParams),
   CRYS_ECDSA_SignInit |-> Stub(CRYS_ECDSA_SignInit, CRYS_ECDSA_SignInitParams),
   CRYS_ECDSA_SignUpdate |-> Stub(CRYS_ECDSA_SignUpdate, CRYS_ECDSA_SignUpdateParams),
   DX_ECDSA_SignFinish |-> Stub(DX_ECDSA_SignFinish, DX_ECDSA_SignFinishParams),
   CRYS_ECDSA_Sign |-> Stub(CRYS_ECDSA_Sign, CRYS_ECDSA_SignParams),
   CRYS_ECDSA_VerifyInit |-> Stub(CRYS_ECDSA_VerifyInit, CRYS_ECDSA_VerifyInitParams),
   CRYS_ECDSA_VerifyUpdate |-> Stub(CRYS_ECDSA_VerifyUpdate, CRYS_ECDSA_VerifyUpdateParams),
   CRYS_ECDSA_VerifyFinish |-> Stub(CRYS_ECDSA_VerifyFinish, CRYS_ECDSA_VerifyFinishParams),
   CRYS_ECDSA_Verify |-> Stub(CRYS_ECDSA_Verify, CRYS_ECDSA_VerifyParams),
   DX_ECPKI_ELGAMAL_Encrypt |-> Stub(DX_ECPKI_ELGAMAL_Encrypt, DX_ECPKI_ELGAMAL_EncryptParams),
   CRYS_ECPKI_ELGAMAL_Decrypt |-> Stub(CRYS_ECPKI_ELGAMAL_Decrypt, CRYS_ECPKI_ELGAMAL_DecryptParams),
   CRYS_ECDH_SVDP_DH |-> Stub(CRYS_ECDH_SVDP_DH, CRYS_ECDH_SVDP_DHParams),
   CRYS_ECPKI_ExportPublKey |-> Stub(CRYS_ECPKI_ExportPublKey, CRYS_ECPKI_ExportPublKeyParams),
   CRYS_ECPKI_GenKeyPair |-> Stub(CRYS_ECPKI_GenKeyPair, CRYS_ECPKI_GenKeyPairParams),
   DX_KDF_KeyDerivFunc |-> Stub(DX_KDF_KeyDerivFunc, DX_KDF_KeyDerivFuncParams),
   CRYS_RC4_Init |-> Stub(CRYS_RC4_Init, CRYS_RC4_InitParams),
   CRYS_RC4_Stream |-> Stub(CRYS_RC4_Stream, CRYS_RC4_StreamParams),
   CRYS_RC4_Free |-> Stub(CRYS_RC4_Free, CRYS_RC4_FreeParams),
   CRYS_RC4 |-> Stub(CRYS_RC4, CRYS_RC4Params),
   CRYS_RND_Instantiation |-> Stub(CRYS_RND_Instantiation, CRYS_RND_InstantiationParams),
   CRYS_RND_Reseeding |-> Stub(CRYS_RND_Reseeding, CRYS_RND_ReseedingParams),
   CRYS_RND_GenerateVector |-> Stub(CRYS_RND_GenerateVector, CRYS_RND_GenerateVectorParams),
   CRYS_RND_GenerateVectorInRange |-> Stub(CRYS_RND_GenerateVectorInRange, CRYS_RND_GenerateVectorInRangeParams),
   CRYS_RND_AddAdditionalInput |-> Stub(CRYS_RND_AddAdditionalInput, CRYS_RND_AddAdditionalInputParams),
   CRYS_RND_UnInstantiation |-> Stub(CRYS_RND_UnInstantiation, CRYS_RND_UnInstantiationParams),
   CRYS_RSA_PRIM_Encrypt |-> Stub(CRYS_RSA_PRIM_Encrypt, CRYS_RSA_PRIM_EncryptParams),
   CRYS_RSA_PRIM_Decrypt |-> Stub(CRYS_RSA_PRIM_Decrypt, CRYS_RSA_PRIM_DecryptParams),
   DX_RSA_SCHEMES_Encrypt |-> Stub(DX_RSA_SCHEMES_Encrypt, DX_RSA_SCHEMES_EncryptParams),
   DX_RSA_SCHEMES_Decrypt |-> Stub(DX_RSA_SCHEMES_Decrypt, DX_RSA_SCHEMES_DecryptParams),
   DX_RSA_SignInit |-> Stub(DX_RSA_SignInit, DX_RSA_SignInitParams),
   DX_RSA_SignFinish |-> Stub(DX_RSA_SignFinish, DX_RSA_SignFinishParams),
   DX_RSA_SignUpdate |-> Stub(DX_RSA_SignUpdate, DX_RSA_SignUpdateParams),
   DX_RSA_Sign |-> Stub(DX_RSA_Sign, DX_RSA_SignParams),
   DX_RSA_VerifyInit |-> Stub(DX_RSA_VerifyInit, DX_RSA_VerifyInitParams),
   DX_RSA_VerifyUpdate |-> Stub(DX_RSA_VerifyUpdate, DX_RSA_VerifyUpdateParams),
   DX_RSA_VerifyFinish |-> Stub(DX_RSA_VerifyFinish, DX_RSA_VerifyFinishParams),
   DX_RSA_Verify |-> Stub(DX_RSA_Verify, DX_RSA_VerifyParams),
   CRYS_RSA_Build_PubKey |-> Stub(CRYS_RSA_Build_PubKey, CRYS_RSA_Build_PubKeyParams),
   CRYS_RSA_Build_PrivKey |-> Stub(CRYS_RSA_Build_PrivKey, CRYS_RSA_Build_PrivKeyParams),
   CRYS_RSA_Build_PrivKeyCRT |-> Stub(CRYS_RSA_Build_PrivKeyCRT, CRYS_RSA_Build_PrivKeyCRTParams),
   CRYS_RSA_KG_GenerateKeyPair |-> Stub(CRYS_RSA_KG_GenerateKeyPair, CRYS_RSA_KG_GenerateKeyPairParams),
   CRYS_RSA_KG_GenerateKeyPairCRT |-> Stub(CRYS_RSA_KG_GenerateKeyPairCRT, CRYS_RSA_KG_GenerateKeyPairCRTParams),
   CRYS_RSA_Get_PubKey |-> Stub(CRYS_RSA_Get_PubKey, CRYS_RSA_Get_PubKeyParams),
   CRYS_RSA_Get_ModSizeFromPubKey |-> Stub(CRYS_RSA_Get_ModSizeFromPubKey, CRYS_RSA_Get_ModSizeFromPubKeyParams),
   CRYS_RSA_PRIM_DecryptExactSize |-> Stub(CRYS_RSA_PRIM_DecryptExactSize, CRYS_RSA_PRIM_DecryptExactSizeParams),
   CRYS_RSA_InvModWord |-> Stub(CRYS_RSA_InvModWord, CRYS_RSA_InvModWordParams),
   CRYS_RSA_KG_GeneratePQprimes |-> Stub(CRYS_RSA_KG_GeneratePQprimes, CRYS_RSA_KG_GeneratePQprimesParams),
   CRYS_RSA_KG_CalculateKeyPairFromPQ |-> Stub(CRYS_RSA_KG_CalculateKeyPairFromPQ, CRYS_RSA_KG_CalculateKeyPairFromPQParams),
   DX_RSA_KG_ExtendGenerateKeyPair |-> Stub(DX_RSA_KG_ExtendGenerateKeyPair, DX_RSA_KG_ExtendGenerateKeyPairParams),
   CRYS_SelfTest |-> Stub(CRYS_SelfTest, CRYS_SelfTestParams),
   DX_MNG_GetLcs |-> Stub(DX_MNG_GetLcs, DX_MNG_GetLcsParams),
   DX_MNG_GetFwVersion |-> Stub(DX_MNG_GetFwVersion, DX_MNG_GetFwVersionParams)]
=============================================================================
