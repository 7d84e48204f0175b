---------------------------- MODULE UserIdentity ----------------------------
(***************************************************************************)
(* The identity of a node's user: InitIdentity runs each time the node     *)
(* starts, loads the stored identity with the user's password, or creates  *)
(* and stores one.  The process may end at any step; the row is on disk.   *)
(* Bytes are records of what they are and their length: generated keys and *)
(* salts are numbered, and a ciphertext remembers its key and its content. *)
(***************************************************************************)
EXTENDS Naturals

CONSTANTS Password,  \* what the user may type
          MaxStarts  \* bound on the starts of the node

None == [is |-> "none"]

VARIABLES pc,       \* the place in InitIdentity; "off" when no process runs
          pwd,      \* the password of this start
          fresh,    \* the identity being created
          disk,     \* the row of the user bucket, or None
          held,     \* what GetIdentity returns, or None
          fault,    \* what went wrong for InitIdentity in this start
          starts

identityVars == <<pc, pwd, fresh, disk, held, fault, starts>>

IdentityInit == /\ pc = "off" /\ pwd \in Password
                /\ fresh = None /\ disk = None /\ held = None
                /\ fault = "none" /\ starts = 0

-----------------------------------------------------------------------------
(* Package customcrypto.                                                   *)

DeriveKey(password, salt) ==
  [is |-> "derived", len |-> 32, from |-> <<password, salt>>]

(* ed25519 key pairs and salts, one of each per start.                     *)
PrivateKey == [is |-> "private", len |-> 64, from |-> starts]
PublicKey  == [is |-> "public", len |-> 32, from |-> starts]
NewSalt    == starts

(* aes.NewCipher.                                                          *)
IsKeySize(len) == len \in {16, 24, 32}

Error == [is |-> "error"]

Encrypt(masterKey, data) ==
  IF IsKeySize(masterKey.len)
  THEN [is |-> "cipher", key |-> masterKey, data |-> data, len |-> data.len + 16]
  ELSE Error

(* The authentication fails under any other key.                           *)
Decrypt(masterKey, encData) ==
  IF IsKeySize(masterKey.len) /\ encData.key = masterKey THEN encData.data ELSE Error

-----------------------------------------------------------------------------
(* The node starts and ends.                                               *)

Start == /\ pc = "off" /\ starts < MaxStarts
         /\ pc' = "find" /\ pwd' \in Password
         /\ fault' = "none" /\ starts' = starts + 1
         /\ UNCHANGED <<fresh, disk, held>>

(* The process ends, after a failure by log.Fatalf; memory is lost.        *)
Stop == /\ pc # "off"
        /\ pc' = "off" /\ fresh' = None /\ held' = None
        /\ UNCHANGED <<pwd, disk, fault, starts>>

Fail(cause) == /\ pc' = "failed" /\ fault' = cause
               /\ UNCHANGED <<pwd, fresh, disk, held, starts>>

-----------------------------------------------------------------------------
(* InitIdentity.                                                           *)

FindFails == pc = "find" /\ Fail("store")

(* No bucket, or no row in it.                                             *)
NotFound == /\ pc = "find" /\ disk = None
            /\ pc' = "create"
            /\ UNCHANGED <<pwd, fresh, disk, held, fault, starts>>

existingIdentity ==
  /\ pc = "find" /\ disk # None
  /\ LET privKey == Decrypt(DeriveKey(pwd, disk.salt), disk.encPrivKey)
     IN  \/ /\ privKey = Error
            /\ Fail(IF pwd = disk.pwd THEN "none" ELSE "password")
         \/ /\ privKey # Error
            /\ held' = [is |-> "identity", privateKey |-> privKey, publicKey |-> disk.publicKey]
            /\ pc' = "done"
            /\ UNCHANGED <<pwd, fresh, disk, fault, starts>>

(* The salt, the key pair or the nonce.                                    *)
RandomFails == pc = "create" /\ Fail("random")

(* Encrypt's first parameter is the key: it is handed the private key      *)
(* there, and the derived key as the data.                                 *)
EncPrivKey == Encrypt(PrivateKey, DeriveKey(pwd, NewSalt))

(* "pwd" is not stored: it is there to tell a wrong password from a fault. *)
CreateIdentity ==
  /\ pc = "create"
  /\ \/ EncPrivKey = Error /\ Fail("none")
     \/ /\ EncPrivKey # Error
        /\ fresh' = [is |-> "row", encPrivKey |-> EncPrivKey, publicKey |-> PublicKey,
                     salt |-> NewSalt, pwd |-> pwd]
        /\ pc' = "save"
        /\ UNCHANGED <<pwd, disk, held, fault, starts>>

(* One transaction.                                                        *)
save == /\ pc = "save"
        /\ disk' = fresh
        /\ held' = [is |-> "identity", privateKey |-> PrivateKey, publicKey |-> PublicKey]
        /\ pc' = "done"
        /\ UNCHANGED <<pwd, fresh, fault, starts>>

SaveFails == pc = "save" /\ Fail("store")

IdentityNext == \/ Start \/ Stop
                \/ FindFails \/ NotFound \/ existingIdentity
                \/ RandomFails \/ CreateIdentity \/ save \/ SaveFails

IdentitySpec == IdentityInit /\ [][IdentityNext]_identityVars

-----------------------------------------------------------------------------
(* InitIdentity "initializes the user identity by either" loading it or    *)
(* "creating a new identity by generating a key pair, encrypting the       *)
(* private key using a derived key from the password": a start on which    *)
(* the store and the random source work, with the password the identity    *)
(* was created under, does not fail, whichever starts and crashes went     *)
(* before it.                                                              *)
FailsForACause == pc = "failed" => fault # "none"
=============================================================================
