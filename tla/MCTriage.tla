------------------------------ MODULE MCTriage ------------------------------
(***************************************************************************)
(* An instance of Triage for TLC: two posts, one of them in two copies of  *)
(* different age, or beside a payload that cannot be read.                 *)
(***************************************************************************)
EXTENDS Triage

Post(url, at) == [kind |-> "post", url |-> url, at |-> at]
Listed(items) == [kind |-> "list", items |-> items]

Copies == << Listed(<<Post("u1", 0), Post("u2", 2), [kind |-> "no url"]>>),
             Listed(<<[kind |-> "no object"], Post("u1", 2)>>) >>
Broken == << [kind |-> "unparseable", items |-> <<>>],
             Listed(<<Post("u1", Undated), Post("u2", 0)>>) >>
Stores == {Copies, Broken}

Publishers == [u1 |-> "p1", u2 |-> "p2"]
Claims == [u1 |-> "c1", u2 |-> "c2"]

Says(is, cities, salience) == [is |-> is, cities |-> cities, salience |-> salience]
Said == {Says("irrelevant", {}, 1), Says("relevant", {"new", "seed"}, 8)}
=============================================================================
