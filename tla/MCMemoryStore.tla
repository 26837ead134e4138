---------------------------- MODULE MCMemoryStore ----------------------------
\* Statements and what the curator answers, for the checked instance.
EXTENDS TLC, MemoryStore

CONSTANTS r1, r2, r3

UserPlace(user) == [type |-> "preference", scope |-> "user", key |-> user]
Says(place, content, importance) ==
  [kind |-> "statement", place |-> place, content |-> content, importance |-> importance]

MCLength == [tea |-> 1, much_tea |-> 2, dark |-> 1]
MCAlike == {<<"tea", "much_tea">>, <<"much_tea", "tea">>}
MCPayloads ==
  r1 :> {<<Says(UserPlace("u1"), "tea", 1), [kind |-> "blank"], Says(UserPlace("u1"), "dark", 3)>>, <<[kind |-> "malformed"]>>}
  @@ r2 :> {<<Says(UserPlace("u1"), "much_tea", 2)>>, <<>>}
  @@ r3 :> {<<Says(UserPlace("u2"), "tea", 1)>>}
MCAdminEntries ==
  {Says(UserPlace("u1"), "tea", 3), Says([type |-> "rule", scope |-> "global", key |-> "global"], "dark", 3)}

=============================================================================
