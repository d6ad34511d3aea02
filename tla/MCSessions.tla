----------------------------- MODULE MCSessions -----------------------------
(* Instances of Sessions for TLC. *)
EXTENDS Sessions, TLC

CONSTANTS s1, s2

\* The operations that race with each other, a few at a time.
\* A code is compared maxGuesses times: once more than the bound that holds in the mix
\* that is about guesses, less where what follows a guess is of interest.
Mix(ops, ids, n) == [ops |-> ops, ids |-> ids, bearers |-> {}, maxGuesses |-> n]
MixBearer(ops, ids, b) == [ops |-> ops, ids |-> ids, bearers |-> {b}, maxGuesses |-> 2]
AllMixes ==
  { Mix({"sendCode", "verifyLogin"}, {s1, s2}, 10),
    Mix({"oidcExchange", "email/send", "verify", "logout"}, {s1}, 4),
    Mix({"oidcExchange", "logout", "revokeSession"}, {s1, s2}, 0),
    Mix({"oidcExchange", "totp/setup", "totp/confirm"}, {s1, s2}, 0),
    Mix({"oidcExchange", "totp/setup", "totp/confirm", "totp/disable", "verify"}, {s1}, 0),
    Mix({"oidcExchange", "totp/setup", "totp/confirm", "regenerate"}, {s1}, 0),
    Mix({"oauthLogin", "oauthCallback", "createToken", "revokeToken"}, {s1}, 0),
    MixBearer({"oidcExchange", "email/send", "verify"}, {s1}, "reprovision"),
    MixBearer({"oidcExchange", "totp/setup", "totp/confirm", "createToken", "revokeToken"}, {s1},
              "dpat") }
Alike == Permutations(Requests) \cup Permutations(Secrets) \cup Permutations(Users)
=============================================================================
