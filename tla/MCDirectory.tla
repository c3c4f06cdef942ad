---------------------------- MODULE MCDirectory -----------------------------
(***************************************************************************)
(* Instances of Directory for TLC.                                         *)
(***************************************************************************)
EXTENDS Directory, TLC

CONSTANTS sa, sb, u1, u2, u3, u4, e1, e2, e3, x1, g1, t1, t2, t3

LocalsHere == [u \in Users |-> CASE u = u1 -> [source |-> "local", email |-> e1]
                                 [] u = u2 -> [source |-> "local", email |-> e2]
                                 [] OTHER  -> NoAccount]

(* Two local owners, the second in a group; SSO on and a live SCIM token.   *)
TwoOwners == [NoTables EXCEPT
  !.exists = TRUE, !.settings.saml = 1, !.accounts = LocalsHere,
  !.members = [@ EXCEPT ![u1] = NewMember("owner"), ![u2] = NewMember("owner")],
  !.groups = {g1}, !.joined = {<<g1, u2>>}, !.live = {t1}]

(* An owner, an admin, and a member the organisation provisioned.           *)
Provisioning == [TwoOwners EXCEPT
  !.accounts[u3] = [source |-> "org", email |-> e3],
  !.members[u2].role = "admin", !.members[u3] = [NewMember("member") EXCEPT !.ext = x1],
  !.bound[e3] = u3, !.bound[x1] = u3, !.joined = {<<g1, u3>>}]

(* Local accounts, one of which is about to found the organisation.         *)
Founding == [NoTables EXCEPT !.accounts = LocalsHere]

(* Sessions differ in nothing but their names.                              *)
Symmetric == Permutations(Sessions)

AllOpenings == {TwoOwners, Provisioning, Founding}
JustOwners  == {TwoOwners}

Actors == {u1, u2}
R(k) == [NoRequest EXCEPT !.kind = k]

OrgRequests ==
  {[R("create") EXCEPT !.by = u] : u \in Actors}
    \cup {[R("add") EXCEPT !.by = u1, !.who = u2, !.role = "admin"]}
    \cup {[R("role") EXCEPT !.by = b, !.who = u, !.role = r] :
            b \in Actors, u \in Actors, r \in {"owner", "member"}}
    \cup {[R("remove") EXCEPT !.by = b, !.who = u] : b \in Actors, u \in Users \ {u4}}
    \cup {[R("sso") EXCEPT !.by = b] : b \in Actors}
    \cup {[R(k) EXCEPT !.by = u1] : k \in {"mfa", "revoke"}}
    \cup {[R(k) EXCEPT !.by = u1, !.groups = {g1}] : k \in {"group", "ungroup"}}
    \cup {[R(k) EXCEPT !.by = u2, !.groups = {g1}, !.who = u3] : k \in {"join", "part"}}
    \cup {[R("mint") EXCEPT !.by = u1, !.token = t2], [R("mint") EXCEPT !.by = u2, !.token = t3]}

P(u, e, x) == [R("provision") EXCEPT !.who = u, !.email = e, !.ext = x, !.active = "on"]
W(u, e, x, a) == [R("write") EXCEPT !.who = u, !.email = e, !.ext = x, !.active = a]

IdpRequests ==
  {P(u4, e2, Nothing), P(u2, e2, Nothing), P(u3, e3, x1), P(u4, e3, x1), P(u4, e3, Nothing)}
    \cup {W(u3, e2, Keep, Keep), W(u2, Keep, x1, Keep), W(u2, Keep, Keep, "off"),
          W(u3, Keep, Keep, "off"), W(u3, e1, Nothing, "on")}
    \cup {[R("deprovision") EXCEPT !.who = u] : u \in {u2, u3}}
    \cup {[R(k) EXCEPT !.groups = {g1}, !.who = u] : k \in {"post", "put"}, u \in {u3, Nothing}}
    \cup {[R(k) EXCEPT !.groups = {g1}, !.who = u3] : k \in {"addto", "takefrom"}}
    \cup {[R("drop") EXCEPT !.groups = {g1}]}
    \cup {[R("signon") EXCEPT !.who = u, !.email = e3, !.ext = x, !.groups = {g1}] :
            u \in {u3, u4}, x \in {Nothing, x1}}
    \cup {[R("signon") EXCEPT !.who = u2, !.email = e2]}

AccountRequests ==
  {[R("erase") EXCEPT !.who = u] : u \in {u2, u3}}
    \cup {[R("register") EXCEPT !.who = u, !.email = e3] : u \in {u3, u4}}

AllRequests == OrgRequests \cup IdpRequests \cup AccountRequests
==============================================================================
