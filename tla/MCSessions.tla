----------------------------- MODULE MCSessions -----------------------------
(* An instance of Sessions for TLC: the seeded administrator and one person. *)
EXTENDS Sessions, TLC

MCScenarios == {{"register", "tokens", "reset"}, {"register", "lock", "reset"},
                {"register", "totp", "reset"}, {"invite", "totp", "tokens"},
                {"invite", "tokens", "admin"}, {"invite", "totp", "admin", "overlap"}}

CONSTANTS root, ann, c1, c2, t1, t2, t3
=============================================================================
