------------------------------- MODULE MCAuth -------------------------------
(***************************************************************************)
(* The components of packages/auth side by side, for TLC: they share no    *)
(* table that both write, so a behaviour is one of a single component, the *)
(* one named by part. (login asks the limiter first and createSession      *)
(* last; Sessions models the refusals as steps that are not taken.)        *)
(***************************************************************************)
EXTENDS Auth, TLC

VARIABLE part   \* the component that runs

vars == <<part, sessionsVars, twoFactorVars, oauthVars, limiterVars>>

Init ==
  /\ part \in {"sessions", "twoFactor", "oauth", "limiter"}
  /\ SessionsInit /\ TwoFactorInit /\ OAuthInit /\ RateLimiterInit
  \* One initial state per component: the others' choices are not made.
  /\ part # "sessions" => strategy = "jwt"
  /\ part # "limiter" => limiter = "logins"

SessionsStep ==
  /\ part = "sessions" /\ SessionsNext
  /\ UNCHANGED <<part, twoFactorVars, oauthVars, limiterVars>>
TwoFactorStep ==
  /\ part = "twoFactor" /\ TwoFactorNext
  /\ UNCHANGED <<part, sessionsVars, oauthVars, limiterVars>>
OAuthStep ==
  /\ part = "oauth" /\ OAuthNext
  /\ UNCHANGED <<part, sessionsVars, twoFactorVars, limiterVars>>
LimiterStep ==
  /\ part = "limiter" /\ RateLimiterNext
  /\ UNCHANGED <<part, sessionsVars, twoFactorVars, oauthVars>>

Next == SessionsStep \/ TwoFactorStep \/ OAuthStep \/ LimiterStep

Spec == Init /\ [][Next]_vars

MCSymmetry == Permutations(Calls) \cup Permutations(Callbacks)
=============================================================================
