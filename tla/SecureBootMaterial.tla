------------------------- MODULE SecureBootMaterial -------------------------
(***************************************************************************)
(* The Secure Boot key of one profile: three files, written by the first   *)
(* build or page that needs them and read by every build that signs. The   *)
(* server may die, and a write may fail, between any two of them.          *)
(***************************************************************************)
EXTENDS Naturals

CONSTANTS
  Users,            \* goroutines: builds of the profile, and its security page
  Nobody,           \* nobody holds the lock
  MaxGenerations    \* bound: how many times material is generated

ASSUME NobodyAssumption == Nobody \notin Users
ASSUME MaxGenerationsAssumption == MaxGenerations \in Nat

VARIABLES
  certFile, guidFile, keyFile,  \* db.crt, guid, db.key: their generation, 0 if there is none
  user,                         \* the goroutines
  holder,                       \* who holds secureBootKeyMu
  generations,                  \* how many were generated
  signed                        \* history: the certificate and key of every signature

bootKeyVars == <<certFile, guidFile, keyFile, user, holder, generations, signed>>

Generation == 0..MaxGenerations
Files == <<certFile, guidFile, keyFile>>

BootKeyInit ==
  /\ certFile = 0 /\ guidFile = 0 /\ keyFile = 0
  /\ user = [u \in Users |-> [step |-> "idle", generation |-> 0]]
  /\ holder = Nobody /\ generations = 0 /\ signed = {}

Exists == certFile # 0 /\ guidFile # 0 /\ keyFile # 0

\* Mutant: no lock.
LockFreely(u) == UNCHANGED holder

Lock(u) == holder = Nobody /\ holder' = u
Unlock == holder' = Nobody

\* ensureProfileSecureBootMaterial: material that is there is used,
UseMaterial(u) ==
  /\ user[u].step = "idle" /\ holder = Nobody /\ Exists
  /\ user' = [user EXCEPT ![u].step = "ready"]
  /\ UNCHANGED <<Files, holder, generations, signed>>

\* other is generated, under the lock,
GenerateMaterial(u) ==
  /\ user[u].step = "idle" /\ ~Exists /\ generations < MaxGenerations
  /\ Lock(u)
  /\ generations' = generations + 1
  /\ user' = [user EXCEPT ![u] = [step |-> "cert", generation |-> generations']]
  /\ UNCHANGED <<Files, signed>>

\* and written, the key last, each file at once (writeFileAtomic).
WriteCert(u) ==
  /\ user[u].step = "cert"
  /\ certFile' = user[u].generation
  /\ user' = [user EXCEPT ![u].step = "guid"]
  /\ UNCHANGED <<guidFile, keyFile, holder, generations, signed>>

WriteGUID(u) ==
  /\ user[u].step = "guid"
  /\ guidFile' = user[u].generation
  /\ user' = [user EXCEPT ![u].step = "key"]
  /\ UNCHANGED <<certFile, keyFile, holder, generations, signed>>

WriteKey(u) ==
  /\ user[u].step = "key"
  /\ keyFile' = user[u].generation
  /\ user' = [user EXCEPT ![u] = [step |-> "ready", generation |-> 0]]
  /\ Unlock
  /\ UNCHANGED <<certFile, guidFile, generations, signed>>

\* A write fails: the build, or the page, does. The bound: the last generation succeeds.
WriteFails(u) ==
  /\ generations < MaxGenerations
  /\ user[u].step \in {"cert", "guid", "key"}
  /\ user' = [user EXCEPT ![u] = [step |-> "idle", generation |-> 0]]
  /\ Unlock
  /\ UNCHANGED <<Files, generations, signed>>

\* signUpdatePackageDir or signImageArtifact, long after the lock was released;
\* a page reads the certificate only (secureBootCertInfo).
Sign(u) ==
  /\ user[u].step = "ready"
  /\ signed' = signed \cup {<<certFile, guidFile, keyFile>>}
  /\ user' = [user EXCEPT ![u].step = "idle"]
  /\ UNCHANGED <<Files, holder, generations>>

\* The server dies and starts again.
RestartServer ==
  /\ generations < MaxGenerations \/ Exists
  /\ \E u \in Users : user[u].step # "idle"
  /\ user' = [u \in Users |-> [step |-> "idle", generation |-> 0]]
  /\ Unlock
  /\ UNCHANGED <<Files, generations, signed>>

BootKeyNext ==
  \/ \E u \in Users :
       \/ UseMaterial(u) \/ GenerateMaterial(u) \/ WriteCert(u) \/ WriteGUID(u) \/ WriteKey(u)
       \/ WriteFails(u) \/ Sign(u)
  \/ RestartServer

-----------------------------------------------------------------------------
\* Types of the state above.
BootKeyTypeOK ==
  /\ certFile \in Generation /\ guidFile \in Generation /\ keyFile \in Generation
  /\ user \in [Users -> [step : {"idle", "cert", "guid", "key", "ready"}, generation : Generation]]
  /\ holder \in Users \cup {Nobody} /\ generations \in Generation
  /\ signed \subseteq Generation \X Generation \X Generation

\* Every signature of the profile's builds is by one key, with the certificate that
\* belongs to it, however builds that need the first key run side by side and the
\* server dies between its files. About ensureProfileSecureBootMaterial.
OneKeyPerProfile ==
  /\ \A a, b \in signed : a = b
  /\ \A a \in signed : a[1] = a[2] /\ a[2] = a[3]

=============================================================================
