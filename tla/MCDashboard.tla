----------------------------- MODULE MCDashboard -----------------------------
(* One instance of Dashboard for TLC: an administrator of two organizations and a  *)
(* user of one of them.                                                            *)
EXTENDS Dashboard, TLC

CONSTANTS admin, user, t1, t2

MCMemberships == (admin :> {t1, t2}) @@ (user :> {t1})
MCFollowings == {{<<"admin-pricing", t1>>, <<"admin-pricing", t2>>},
                 {<<"transactions", t1>>, <<"platform-org-transactions", t1>>},
                 {<<"summary", t1>>, <<"summary", t2>>}}
=============================================================================
