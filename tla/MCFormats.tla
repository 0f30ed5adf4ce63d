---------------------------- MODULE MCFormats ----------------------------
(* Safes for Formats: two plain entries in groups with every kind of name,   *)
(* and one entry with every kind of text in each of its fields.              *)
EXTENDS Formats

Two  == 1..2
User == <<"u">>
TwoUsers == {User, <<"b">>}

AllLetters == {"u", "a", "p", "x", "y", "b", "c", "n", Sep, Esc, Dot, TAB, NL, AD, A0, Bad}
AllStamps  == {"2004", "id", "inner NUL", "cut", "first NUL"}
                \cup {"now 1", "now 2", "now 3", "new 1", "new 2", "new 3"}

\* The second load makes a UUID with a NUL byte for its second entry.
Now3   == <<"now 1", "now 2", "now 3">>
Fresh3 == <<"new 1", "new 2", "new 3">>
NowIn   == [n \in 1..3 |-> [e \in Two |-> Now3[n]]]
FreshIn == [n \in 1..3 |-> [e \in Two |-> IF n = 2 /\ e = 2 THEN "inner NUL" ELSE Fresh3[n]]]
Firsts  == {"first NUL"}
Cut     == [v \in AllStamps |-> IF v = "inner NUL" THEN "cut" ELSE v]

Plain == [name |-> <<"a">>, user |-> User, password |-> <<"p">>, notes |-> <<>>,
          group |-> 0, modified |-> "2004", uuid |-> "id"]

\* All the trees of one or two groups, nested or side by side.
GroupNames == {<<>>, <<"x">>, <<"y">>, <<Sep>>, <<"x", Esc>>, <<Esc, "x">>, <<Dot>>,
               <<"x", Sep>>, <<Esc>>, <<TAB>>}
Group(n, p) == [name |-> n, parent |-> p]
Trees == {<<>>} \cup {<<Group(n, 0)>> : n \in GroupNames}
           \cup {<<Group(n, 0), Group(m, p)>> : n \in GroupNames, m \in GroupNames, p \in {0, 1}}

GroupDocs ==
  UNION {{[tree |-> t, entries |-> [e \in Two |-> [Plain EXCEPT !.group = g[e]]]]
            : g \in [Two -> 0..Len(t)]} : t \in Trees}

Texts == {<<>>, User, <<"b">>, <<"b", AD>>, <<A0, "b">>, <<"b", AD, A0>>, <<"b", TAB>>, <<TAB>>,
          <<"b", NL, "c">>, <<Esc, "n">>, <<Bad>>}

FieldDocs ==
  {[tree |-> <<>>, entries |-> [e \in Two |->
      IF e = 1 THEN Plain ELSE [Plain EXCEPT !.name = n, !.user = u, !.password = p, !.notes = o]]]
     : n \in Texts \ {<<>>}, u \in Texts, p \in {<<"p">>, <<TAB>>, <<Esc, "n">>},
       o \in {<<>>, <<"b", NL, "c">>, <<Esc, "n", NL>>, <<TAB>>}}

RawDocs ==
  {[tree |-> <<>>, entries |-> [e \in Two |->
      IF e = 1 THEN [Plain EXCEPT !.uuid = v] ELSE [Plain EXCEPT !.modified = v]]]
     : v \in {"inner NUL", "first NUL"}}

AllDocs == GroupDocs \cup FieldDocs \cup RawDocs
===========================================================================
