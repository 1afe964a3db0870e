-------------------------------- MODULE Auth --------------------------------
(* The components of packages/auth together. They have tables of their own.*)
EXTENDS Sessions, TwoFactor, OAuthAccounts, RateLimiter

(* Type correctness of the four components.                                *)
AuthTypesOK == SessionsTypeOK /\ TwoFactorTypeOK /\ OAuthTypeOK /\ RateLimiterTypeOK
=============================================================================
