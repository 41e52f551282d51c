----------------------------- MODULE VaultStore -----------------------------
(***************************************************************************)
(* The secret vault (src/src/core/vault.ts): init, set, delete and destroy *)
(* as transactions under LocalLock.  The whole vault is one encrypted      *)
(* file: a call that does not know its password can read nothing of it and *)
(* so cannot rewrite it.  Cipher, salt and encoding are abstracted to      *)
(* "readable with the password it was written with".  The unlocked readers *)
(* (getSecret, listSecrets, exportVault) read one complete file and change *)
(* nothing.                                                                *)
(***************************************************************************)
EXTENDS LocalLock

CONSTANTS
  Password,  \* master passwords
  Secret,    \* (key, env) pairs
  Value,     \* secret values
  Request,   \* per call: its kind, password, secret and value
  Earlier    \* the vault before any of these calls

Kind == {"init", "set", "delete", "destroy"}

NoSecrets == [s \in Secret |-> "none"]
Absent == [pw |-> "none", secrets |-> NoSecrets]
Vaults == [pw : Password, secrets : [Secret -> Value \cup {"none"}]] \cup {Absent}

ASSUME VaultAssumption ==
  /\ Request \in [Call -> [kind : Kind, pw : Password, secret : Secret, value : Value]]
  /\ "none" \notin Password \cup Value
  /\ Earlier \in Vaults

VARIABLES
  vault,    \* the vault file: its password and secrets, or Absent
  staged,   \* per call: the vault in its temporary file
  applied   \* history variable, per call: its effect is in the file's past

storeVars == <<vault, staged, applied>>
vaultVars == <<lockVars, storeVars>>

VaultInit ==
  /\ LockInit
  /\ vault = Earlier
  /\ staged = [c \in Call |-> Absent]
  /\ applied = [c \in Call |-> FALSE]

\* readEncryptedVault succeeds: an absent vault is VAULT_NOT_INITIALIZED, a
\* wrong password VAULT_DECRYPT_FAILED.
Readable(c, v) == v # Absent /\ v.pw = Request[c].pw

\* Mutant: init overwrites.
AllowedToOverwrite(c, v) == Request[c].kind \in {"init", "destroy"} \/ Readable(c, v)

\* init refuses to overwrite; set and delete read the vault; destroy does not.
Allowed(c, v) ==
  CASE Request[c].kind = "init" -> v = Absent
    [] Request[c].kind \in {"set", "delete"} -> Readable(c, v)
    [] Request[c].kind = "destroy" -> TRUE

Effect(c, v) ==
  CASE Request[c].kind = "init" -> [pw |-> Request[c].pw, secrets |-> NoSecrets]
    [] Request[c].kind = "set" ->
         [v EXCEPT !.secrets[Request[c].secret] = Request[c].value]
    [] Request[c].kind = "delete" -> [v EXCEPT !.secrets[Request[c].secret] = "none"]
    [] Request[c].kind = "destroy" -> Absent

\* Mutant: set, too, returns early when the secret is not stored.
NothingToUpdate(c, v) ==
  Request[c].kind \in {"set", "delete"} /\ v.secrets[Request[c].secret] = "none"

\* deleteSecret of a secret that is not stored writes nothing.
NothingToWrite(c, v) ==
  Request[c].kind = "delete" /\ v.secrets[Request[c].secret] = "none"

\* The operation up to its guard: fails, returns, or has its new vault ready.
ReadAndStage(c) ==
  \/ /\ Allowed(c, vault) /\ NothingToWrite(c, vault)
     /\ Work(c, "exit")
     /\ applied' = [applied EXCEPT ![c] = TRUE]
     /\ UNCHANGED <<vault, staged>>
  \/ /\ Allowed(c, vault) /\ ~NothingToWrite(c, vault)
     /\ Work(c, "commit")
     /\ staged' = [staged EXCEPT ![c] = Effect(c, vault)]
     /\ UNCHANGED <<vault, applied>>
  \/ Work(c, "throw") /\ UNCHANGED storeVars

\* rename(tempPath, vaultPath), or destroy's rm, with the checks around it.
Replace(c) ==
  \/ /\ \E next \in {"exit", "throw"} : Commit(c, next)
     /\ vault' = staged[c]
     /\ applied' = [applied EXCEPT ![c] = TRUE]
     /\ UNCHANGED staged
  \/ Commit(c, "throw") /\ UNCHANGED storeVars

VaultStep(c) == ReadAndStage(c) \/ Replace(c)

CallStep(c) == VaultStep(c) \/ (Protocol(c) /\ UNCHANGED storeVars)

VaultNext == (\E c \in Call : CallStep(c)) \/ (Environment /\ UNCHANGED storeVars)

VaultSpec == VaultInit /\ [][VaultNext]_vaultVars

-----------------------------------------------------------------------------
(* Properties *)

\* How SerialStore sees a call.
Phase(c) ==
  CASE At(c, "done") -> outcome[c] [] At(c, "dead") -> "dead" [] OTHER -> "open"

Serial == INSTANCE SerialStore WITH
  Initial <- Earlier, state <- vault, phase <- [c \in Call |-> Phase(c)]

\* Vault mutations of all processes take effect one at a time on the vault the
\* previous one left; in particular init never overwrites a vault that another
\* process created meanwhile (ENGINEERING.md:60, vault.ts:52).
VaultMutationsAreSerial == Serial!SerialSpec

\* A stored vault keeps its password until it is destroyed: a second init fails
\* however the two race, and set and delete never rewrite a vault they cannot
\* decrypt ("Vault already exists. Refusing to overwrite it.", vault.ts:52).
KeepsPasswordUntilDestroyed ==
  [][vault # Absent => vault'.pw = vault.pw \/ vault' = Absent]_vaultVars
=============================================================================
