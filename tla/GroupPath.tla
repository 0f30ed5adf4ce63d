---------------------------- MODULE GroupPath ----------------------------
(***************************************************************************)
(* Full names of groups: the escaping and splitting of myutil.cpp, the      *)
(* translation to and from Password Safe's names in serializers.cpp, and    *)
(* the search for a group, or its making, in safe.cpp.                      *)
(*                                                                         *)
(* A string is a sequence of characters.  A tree is a sequence of groups,   *)
(* each [name, parent]; parent 0 is the safe itself.  Siblings stand in the *)
(* order they were made.                                                    *)
(***************************************************************************)
EXTENDS Integers, Sequences, FiniteSetsExt, SequencesExt

Sep == "/"      \* GroupSeperator
Esc == "\\"
Dot == "."

-----------------------------------------------------------------------------
EscapeChar(c) == IF c \in {Sep, Esc} THEN <<Esc, c>> ELSE <<c>>

\* Mutant of escapeGroup: the separator alone is escaped.
escapeGroup_SepOnly(g) ==
  FlattenSeq([k \in DOMAIN g |-> IF g[k] = Sep THEN <<Esc, Sep>> ELSE <<g[k]>>])

escapeGroup(g) == FlattenSeq([k \in DOMAIN g |-> EscapeChar(g[k])])

\* After how many characters of g an escape is waiting for its character.
Opens(g) == LET open[k \in 0..Len(g)] == k # 0 /\ ~open[k - 1] /\ g[k] = Esc IN open

\* The characters of g, each with what stands for it when the one before was an
\* escape, and when not.
Scan(g, Escaped(_), Plain(_)) ==
  FlattenSeq([k \in DOMAIN g |-> IF Opens(g)[k - 1] THEN Escaped(g[k])
                                 ELSE IF g[k] = Esc THEN <<>> ELSE Plain(g[k])])

\* unescapeGroup, and whether it throws an EscapeException.
unescapeGroup(g)  == Scan(g, LAMBDA c : <<c>>, LAMBDA c : <<c>>)
unescapeThrows(g) == \/ Opens(g)[Len(g)]
                     \/ \E k \in DOMAIN g : Opens(g)[k - 1] /\ g[k] \notin {Sep, Esc}

Leading(g) == IF \E k \in DOMAIN g : g[k] # Sep
              THEN Min({k \in DOMAIN g : g[k] # Sep}) - 1 ELSE Len(g)
DropLeading(g) == SubSeq(g, Leading(g) + 1, Len(g))

\* BlowfishLizer2::readyGroup: what the file gets; an escape at the end is lost.
readyGroup(g) ==
  Scan(DropLeading(g), LAMBDA c : IF c = Sep THEN <<Sep>> ELSE <<Esc, Esc>>,
       LAMBDA c : IF c = Sep THEN <<Dot>> ELSE IF c = Dot THEN <<Esc, Dot>> ELSE <<c>>)

\* Mutant of parseGroup: a separator in a name is not escaped.
parseGroup_SepPlain(g) ==
  Scan(g, LAMBDA c : IF c = Dot THEN <<Dot>> ELSE IF c = Esc THEN <<Esc, Esc>> ELSE <<>>,
       LAMBDA c : IF c = Dot THEN <<Sep>> ELSE <<c>>)

\* BlowfishLizer2::parseGroup
parseGroup(g) ==
  Scan(g, LAMBDA c : IF c = Dot THEN <<Dot>> ELSE IF c = Esc THEN <<Esc, Esc>> ELSE <<>>,
       LAMBDA c : IF c = Dot THEN <<Sep>> ELSE IF c = Sep THEN <<Esc, Sep>> ELSE <<c>>)

-----------------------------------------------------------------------------
\* The last separator that no escape character stands before, counted from 0;
\* 0 also if there is none.
LastCut(g) == Max({0} \cup {i \in 1..Len(g) - 1 : g[i + 1] = Sep /\ g[i] # Esc})

\* Mutant of thisGroup: the separator stays.
thisGroup_WithSep(g) == SubSeq(g, LastCut(g) + 1, Len(g))

thisGroup(g) ==
  IF g = <<>> THEN <<>>
  ELSE SubSeq(g, LastCut(g) + (IF g[LastCut(g) + 1] = Sep THEN 2 ELSE 1), Len(g))

parentGroup(g) == SubSeq(g, 1, LastCut(g))

\* The first section of g, its end, and what comes after it and a separator.
SectionEnd(g) ==
  LET ends == {i \in Leading(g) + 1..Len(g) : i > 1 /\ g[i] = Sep /\ g[i - 1] # Esc}
  IN  IF ends = {} THEN Len(g) ELSE Min(ends) - 1

Section(g)      == SubSeq(g, Leading(g) + 1, SectionEnd(g))
AfterSection(g) == SubSeq(g, SectionEnd(g) + 2, Len(g))

None == -1

\* findGroup: the first child of that name decides, NULL if there is none.
\* found[n][group] is what the last n characters of `full' name below group.
findGroup(tree, full) ==
  LET found[n \in 0..Len(full)] ==
        LET rest == SubSeq(full, Len(full) - n + 1, Len(full))
            Hits(group) == {c \in DOMAIN tree : /\ tree[c].parent = group
                                               /\ tree[c].name = unescapeGroup(Section(rest))}
        IN  [group \in 0..Len(tree) |->
               IF n = 0 \/ Hits(group) = {} THEN None
               ELSE IF SectionEnd(rest) = n THEN Min(Hits(group))
               ELSE found[n - SectionEnd(rest) - 1][Min(Hits(group))]]
  IN  found[Len(full)][0]

\* The path findOrCreateGroup goes by: separators alone stay.
SearchPath(name) == IF \E k \in DOMAIN name : name[k] # Sep THEN DropLeading(name) ELSE name

\* findOrCreateGroup: the tree it leaves and the group it returns, the safe for
\* an empty name.  A parent's path is a prefix of the path: made[n] is what
\* becomes of the first n characters.
findOrCreateGroup(tree, name) ==
  LET path == SearchPath(name)
      made[n \in 0..Len(path)] ==
        LET full   == SubSeq(path, 1, n)
            found  == findGroup(tree, full)
            parent == made[LastCut(full)]
        IN  IF n = 0 THEN [tree |-> tree, group |-> 0]
            ELSE IF found # None THEN [tree |-> tree, group |-> found]
            ELSE [tree |-> Append(parent.tree, [name |-> unescapeGroup(thisGroup(full)),
                                                parent |-> parent.group]),
                  group |-> Len(parent.tree) + 1]
  IN  made[Len(path)]

\* BlowfishLizer2::groupName; PlainTextLizer::saveGroup builds the same string.
groupName(tree, group) ==
  LET name[n \in 0..Len(tree)] ==
        IF n = 0 THEN <<>>
        ELSE name[tree[n].parent] \o <<Sep>> \o escapeGroup(tree[n].name)
  IN  name[group]

\* The names from the safe down to a group.
NamesOf(tree, group) ==
  LET names[n \in 0..Len(tree)] ==
        IF n = 0 THEN <<>> ELSE Append(names[tree[n].parent], tree[n].name)
  IN  names[group]
=============================================================================
