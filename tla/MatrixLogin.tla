----------------------------- MODULE MatrixLogin -----------------------------
(***************************************************************************)
(* Connect of the Matrix adapter, start after start (network/matrix        *)
(* adapter.go, crypto.go and prompt.go): the access token, the device and  *)
(* the pickle key in the keyring, each set by a call of its own that can   *)
(* fail or be cut off, and the database of the encryption, which works     *)
(* only with the key and the device it was made with.                      *)
(*                                                                         *)
(* The homeserver, the keyring and mautrix's crypto helper are external: a *)
(* login makes a new device, and the helper refuses a database of another  *)
(* device or another key, and a client without a device.  Devices and keys *)
(* are numbers, 0 for none; a token is known by the device it is for.      *)
(* Names are prefixed so that the client's parts can be checked side by    *)
(* side.                                                                   *)
(***************************************************************************)
EXTENDS Naturals

CONSTANTS
  MaxMlMade,     \* bound: devices, and keys, that are made
  MaxMlFaults,   \* bound: keyring calls and requests that fail, and crashes
  MaxMlStarts    \* bound: starts of the program

ASSUME MatrixLoginAssumption == {MaxMlMade, MaxMlFaults, MaxMlStarts} \subseteq Nat

VARIABLES
  mlAt,       \* where Connect is
  mlClient,   \* the client's token and device, and the pickle key
  mlRing,     \* the keyring: the same three
  mlDb,       \* crypto.db: its device and its key
  mlCrypto,   \* a.crypto is set
  mlMade,     \* devices of the homeserver and keys drawn (external)
  mlMisread,  \* history: a reading of the keyring failed
  mlCut,      \* history: a login ended between two Sets, or one failed
  mlExcused,  \* history: in this start a request failed, or the key's Set
  mlFaults,   \* bounded by MaxMlFaults
  mlStarts    \* bounded by MaxMlStarts

mlPast == <<mlMisread, mlCut, mlExcused>>
mlVars == <<mlAt, mlClient, mlRing, mlDb, mlCrypto, mlMade, mlPast, mlFaults, mlStarts>>

MlMade == 0..MaxMlMade
MlKept == [token : MlMade, device : MlMade, key : MlMade]
MlNone == [token |-> 0, device |-> 0, key |-> 0]

MlTypeOK ==
  /\ mlAt \in {"off", "device", "resolve", "login", "setToken", "setDevice", "getKey",
               "setKey", "crypto", "sync"}
  /\ mlClient \in MlKept /\ mlRing \in MlKept
  /\ mlDb \in [device : MlMade, key : MlMade]
  /\ mlCrypto \in BOOLEAN
  /\ mlMade \in [device : MlMade, key : MlMade]
  /\ {mlMisread, mlCut, mlExcused} \subseteq BOOLEAN
  /\ mlFaults \in 0..MaxMlFaults
  /\ mlStarts \in 0..MaxMlStarts

MlInit ==
  /\ mlAt = "off"
  /\ mlClient = MlNone
  /\ mlRing = MlNone
  /\ mlDb = [device |-> 0, key |-> 0]
  /\ mlCrypto = FALSE
  /\ mlMade = [device |-> 0, key |-> 0]
  /\ mlMisread = FALSE
  /\ mlCut = FALSE
  /\ mlExcused = FALSE
  /\ mlFaults = 0
  /\ mlStarts = 0

MlFault == mlFaults < MaxMlFaults /\ mlFaults' = mlFaults + 1

\* credstore.Get: what is there, or nothing for any error.
Got(k) ==
  \/ mlClient' = [mlClient EXCEPT ![k] = mlRing[k]] /\ UNCHANGED <<mlMisread, mlFaults>>
  \/ mlClient' = [mlClient EXCEPT ![k] = 0] /\ mlMisread' = TRUE /\ MlFault

-----------------------------------------------------------------------------
(* Connect.                                                                *)

\* The start of the program, and the token.
GetToken ==
  /\ mlAt = "off"
  /\ mlStarts < MaxMlStarts
  /\ mlStarts' = mlStarts + 1
  /\ Got("token")
  /\ mlAt' = "device"
  /\ mlExcused' = FALSE
  /\ UNCHANGED <<mlRing, mlDb, mlCrypto, mlMade, mlCut>>

GetDevice ==
  /\ mlAt = "device"
  /\ Got("device")
  /\ mlAt' = IF mlClient.token = 0 THEN "resolve" ELSE "getKey"
  /\ UNCHANGED <<mlRing, mlDb, mlCrypto, mlMade, mlCut, mlExcused, mlStarts>>

\* resolveCredentials and gatherLogin: the password of the environment or of a
\* prompt; no terminal, or an answer that is empty, and Connect ends.
ResolveCredentials ==
  /\ mlAt = "resolve"
  /\ mlAt' \in {"login", "off"}
  /\ UNCHANGED <<mlClient, mlRing, mlDb, mlCrypto, mlMade, mlPast, mlFaults, mlStarts>>

\* The request of login: a new device, or Connect ends.
Login ==
  /\ mlAt = "login"
  /\ \/ /\ mlMade.device < MaxMlMade
        /\ mlMade' = [mlMade EXCEPT !.device = @ + 1]
        /\ mlClient' = [mlClient EXCEPT !.token = mlMade.device + 1,
                                        !.device = mlMade.device + 1]
        /\ mlAt' = "setToken"
        /\ UNCHANGED mlFaults
     \/ MlFault /\ mlAt' = "off" /\ UNCHANGED <<mlMade, mlClient>>
  /\ UNCHANGED <<mlRing, mlDb, mlCrypto, mlPast, mlStarts>>

\* The two Sets of login, whose errors are ignored.
SetOrNot(at, k, next) ==
  /\ mlAt = at
  /\ mlAt' = next
  /\ \/ mlRing' = [mlRing EXCEPT ![k] = mlClient[k]] /\ UNCHANGED <<mlCut, mlFaults>>
     \/ MlFault /\ mlCut' = TRUE /\ UNCHANGED mlRing
  /\ UNCHANGED <<mlClient, mlDb, mlCrypto, mlMade, mlMisread, mlExcused, mlStarts>>

\* loadOrCreatePickleKey: the key there is, or another.
GetKey ==
  /\ mlAt = "getKey"
  /\ \/ /\ mlRing.key # 0
        /\ mlClient' = [mlClient EXCEPT !.key = mlRing.key]
        /\ mlAt' = "crypto"
        /\ UNCHANGED <<mlMade, mlMisread, mlFaults>>
     \/ /\ \/ mlRing.key = 0 /\ UNCHANGED <<mlMisread, mlFaults>>
           \/ mlRing.key # 0 /\ MlFault /\ mlMisread' = TRUE
        /\ mlMade.key < MaxMlMade
        /\ mlMade' = [mlMade EXCEPT !.key = @ + 1]
        /\ mlClient' = [mlClient EXCEPT !.key = mlMade.key + 1]
        /\ mlAt' = "setKey"
  /\ UNCHANGED <<mlRing, mlDb, mlCrypto, mlCut, mlExcused, mlStarts>>

\* [fault] the key is used although it could not be kept.
KeyUnkept == "crypto"

\* setupCrypto returns the error of the key's Set, and Connect goes on without
\* encryption.
AfterKeyUnkept == "sync"

SetKey ==
  /\ mlAt = "setKey"
  /\ \/ /\ mlRing' = [mlRing EXCEPT !.key = mlClient.key]
        /\ mlAt' = "crypto"
        /\ UNCHANGED <<mlExcused, mlFaults>>
     \/ /\ MlFault
        /\ mlExcused' = TRUE
        /\ mlAt' = AfterKeyUnkept
        /\ UNCHANGED mlRing
  /\ UNCHANGED <<mlClient, mlDb, mlCrypto, mlMade, mlMisread, mlCut, mlStarts>>

\* The helper: a database without a device is made for this one; another device's,
\* or one that its key does not open, is refused.
Made == [device |-> mlClient.device, key |-> mlClient.key]
Fits == mlClient.device # 0 /\ mlDb \in {[device |-> 0, key |-> 0], Made}

\* The rest of setupCrypto; its error is reported, and Connect goes on.  A request
\* that fails may do so with the database made.
SetupCrypto ==
  /\ mlAt = "crypto"
  /\ mlAt' = "sync"
  /\ \/ /\ Fits
        /\ mlDb' = Made
        /\ mlCrypto' = TRUE
        /\ UNCHANGED <<mlExcused, mlFaults>>
     \/ ~Fits /\ UNCHANGED <<mlDb, mlCrypto, mlExcused, mlFaults>>
     \/ /\ Fits
        /\ MlFault
        /\ mlDb' \in {mlDb, Made}
        /\ mlExcused' = TRUE
        /\ UNCHANGED mlCrypto
  /\ UNCHANGED <<mlClient, mlRing, mlMade, mlMisread, mlCut, mlStarts>>

\* Disconnect, or the program dies at any point: what Connect had is gone.
Ends ==
  /\ mlAt # "off"
  /\ \/ mlAt = "sync" /\ UNCHANGED <<mlCut, mlFaults>>
     \/ mlAt # "sync" /\ MlFault /\ mlCut' = (mlCut \/ mlAt \in {"setToken", "setDevice"})
  /\ mlAt' = "off"
  /\ mlClient' = MlNone
  /\ mlCrypto' = FALSE
  /\ UNCHANGED <<mlRing, mlDb, mlMade, mlMisread, mlExcused, mlStarts>>

-----------------------------------------------------------------------------
MlNext ==
  \/ GetToken \/ GetDevice \/ ResolveCredentials \/ Login
  \/ SetOrNot("setToken", "token", "setDevice")
  \/ SetOrNot("setDevice", "device", "getKey")
  \/ GetKey \/ SetKey \/ SetupCrypto \/ Ends

MlSpec == MlInit /\ [][MlNext]_mlVars

-----------------------------------------------------------------------------
(* Properties.                                                             *)

\* A client that syncs has encryption, whatever earlier starts were cut off or
\* had to do without, but for three causes: in this start a request or the
\* writing of the key failed; some reading of the keyring failed, for an error is
\* taken for a key or a token that is not there and another is made; or the two
\* writes of a login did not both happen.  The last two last for good.
EncryptionKept == mlAt = "sync" => mlCrypto \/ mlExcused \/ mlMisread \/ mlCut
=============================================================================
