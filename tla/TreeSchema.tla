------------------------------- MODULE TreeSchema -------------------------------
(***************************************************************************)
(* The types of trees.rs, which the Thrift compiler generated: the group    *)
(* tree a conversation-key change may carry. They are the only ones with    *)
(* required fields.                                                         *)
(***************************************************************************)
EXTENDS ThriftTypes

GroupOpType == Enum({1, 6})

Member == Struct(<<Required(1, "userId", I64), Required(2, "keyVersion", I64)>>)

PubKeyBytes == Struct(<<Required(1, "pubKeyBytes", Bin)>>)

MemberKeyInfo == Struct(<<
    F(1, "identityPublicKey", Bin), F(2, "signingPublicKey", Bin),
    F(3, "identityKeySignature", Bin)>>)

TreeKeyData == Struct(<<
    Required(1, "publicKey", PubKeyBytes), Required(2, "subTreeHash", Bin)>>)

TreeNode == Struct(<<
    F(1, "member", Member), F(2, "keyData", TreeKeyData),
    F(3, "nodeSecretKeyEncryptions", MapOf(Bin, Bin))>>)

MaybeTreeNode == Struct(<<F(1, "node", TreeNode)>>)

GenGroupOpData == Struct(<<
    F(1, "updateMap", MapOf(I32, MapOf(Bin, Bin))),
    F(2, "newPathPks", MapOf(I32, Bin)), F(3, "initialMembers", ListOf(Member))>>)

EditOpData == Struct(<<
    F(1, "updateMap", MapOf(I32, MapOf(Bin, Bin))),
    F(2, "newPathPks", MapOf(I32, Bin)), F(3, "membersLeft", ListOf(Member)),
    F(4, "membersToAdd", ListOf(Member)), F(5, "membersUpdated", ListOf(Member)),
    F(6, "fullTreeList", ListOf(MaybeTreeNode))>>)

TypeData == Union(<<F(1, "genGroup", GenGroupOpData), F(6, "edit", EditOpData)>>)

GroupOpData == Struct(<<
    F(1, "groupId", Str), F(2, "treeVersion", I64), F(3, "actionBy", Member),
    F(4, "typeData", TypeData), F(6, "memberKeyInfo", MapOf(I64, MemberKeyInfo))>>)

================================================================================
