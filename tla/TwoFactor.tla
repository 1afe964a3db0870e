----------------------------- MODULE TwoFactor -----------------------------
(***************************************************************************)
(* Auth.twoFactor of packages/auth/src/core/auth.ts: generate, enable and  *)
(* disable for one user. enable checks a code against the secret it has    *)
(* read and sets the flag in a second query. A secret's codes are known to *)
(* who was shown the secret; a code is modelled by the secret it is of.    *)
(***************************************************************************)
EXTENDS Integers, FiniteSets

CONSTANTS
  Secrets,   \* the secrets that can be generated
  Owners,    \* calls of enable that may be in flight at once
  NoSecret   \* SQL's null

ASSUME TwoFactorConstantsOK == NoSecret \notin Secrets

VARIABLES
  secret,    \* twoFactorSecret of the user's row
  required,  \* twoFactorEnabled of the user's row
  checked,   \* the secret an enable in flight has checked a code of
  proved,    \* history: secrets that some enable has seen a code of
  loose      \* history: the secret was replaced or removed under an enable
             \* in flight, or replaced while codes were required
twoFactorVars == <<secret, required, checked, proved, loose>>

TwoFactorInit ==
  /\ secret = NoSecret /\ required = FALSE
  /\ checked = [o \in Owners |-> NoSecret]
  /\ proved = {} /\ loose = FALSE

Enabling == \E o \in Owners : checked[o] # NoSecret

\* Fault: generating a secret turns the second factor on.
GenerateAndRequire(s) ==
  /\ secret' = s /\ required' = TRUE
  /\ loose' = (loose \/ required \/ Enabling)
  /\ UNCHANGED <<checked, proved>>

Generate(s) ==
  /\ secret' = s
  /\ loose' = (loose \/ required \/ Enabling)
  /\ UNCHANGED <<required, checked, proved>>

\* enable up to its second query: it throws without a secret or with a code
\* of another one.
CheckCode(o, code) ==
  /\ checked[o] = NoSecret /\ secret # NoSecret /\ code = secret
  /\ checked' = [checked EXCEPT ![o] = secret]
  /\ proved' = proved \cup {code}
  /\ UNCHANGED <<secret, required, loose>>

Enable(o) ==
  /\ checked[o] # NoSecret
  /\ required' = TRUE
  /\ checked' = [checked EXCEPT ![o] = NoSecret]
  /\ UNCHANGED <<secret, proved, loose>>

EnableFails(o) ==
  /\ checked[o] # NoSecret
  /\ checked' = [checked EXCEPT ![o] = NoSecret]
  /\ UNCHANGED <<secret, required, proved, loose>>

\* Fault: the two columns are written the wrong way round.
DisableSwapped ==
  /\ required' = NoSecret /\ secret' = FALSE
  /\ loose' = Enabling
  /\ UNCHANGED <<checked, proved>>

Disable ==
  /\ required' = FALSE /\ secret' = NoSecret
  /\ loose' = Enabling
  /\ UNCHANGED <<checked, proved>>

TwoFactorNext ==
  \/ \E s \in Secrets : Generate(s)
  \/ \E o \in Owners : (\E code \in Secrets : CheckCode(o, code)) \/ Enable(o) \/ EnableFails(o)
  \/ Disable

TwoFactorSpec == TwoFactorInit /\ [][TwoFactorNext]_twoFactorVars

-----------------------------------------------------------------------------
TwoFactorTypeOK ==
  /\ secret \in Secrets \cup {NoSecret} /\ required \in BOOLEAN /\ loose \in BOOLEAN
  /\ checked \in [Owners -> Secrets \cup {NoSecret}]
  /\ proved \subseteq Secrets

(* Logging in demands codes only of a secret whose owner has shown one to  *)
(* enable (auth.ts:485), and never of no secret at all, which auth.ts:227  *)
(* would refuse for ever: unless generate replaced the secret of a user    *)
(* who had codes required, or generate or disable ran between the two      *)
(* queries of an enable.                                                   *)
RequiredIsProved == required /\ ~loose => secret \in proved
=============================================================================
