----------------------------- MODULE Formats -----------------------------
(***************************************************************************)
(* What a safe turns into when it is saved in one of the four formats and   *)
(* loaded again, once or several times, in the same format or another: the  *)
(* entries' fields and the groups they are in.                              *)
(*                                                                         *)
(* A text is a sequence of characters, of which only those matter that some *)
(* format treats specially: white space (TAB for all of it that breaks no   *)
(* line) and NL, the two characters \ n, and letters whose UTF-8 form holds  *)
(* the byte AD or A0.  Times, to the second, and UUIDs are single tokens;    *)
(* entries are numbered, and loaded, in the order of their names, whatever   *)
(* their place in the file.  The build uses Qt 5 (QT += widgets).           *)
(***************************************************************************)
EXTENDS GroupPath

CONSTANTS
  LastId,     \* how many entries there are
  Letters,    \* the characters of a text
  Stamps,     \* times and UUIDs
  Docs,       \* the safes to begin with
  Users,      \* the default users of the preferences
  NowAt,      \* the time when the load after save n sets an entry's notes
  FreshAt,    \* the UUID that load makes for an entry
  FirstNul,   \* the times and UUIDs whose first byte is NUL
  CString,    \* what a C string keeps of the others: nothing after a NUL
  MaxRounds   \* bound: saves in a behaviour

TAB == "TAB"
NL  == "NL"
AD  == "letter with AD"
A0  == "letter with A0"
Bad == "FFFD"             \* what fromUtf8 makes of a byte that is no UTF-8

FieldNames == {"name", "user", "password", "notes", "group", "modified", "uuid"}
FormatNames == {"v1", "v2", "txt", "xml"}

\* The entries, in the order they are loaded in.
Ids == 1..LastId

Text == Seq(Letters)

\* Trees, and entries in the groups of one.
Tree(t) == /\ t \in Seq([name : Text, parent : Nat])
           /\ \A n \in DOMAIN t : t[n].parent < n
EntriesIn(t) == [name : Text, user : Text, password : Text, notes : Text,
                 group : 0..Len(t), modified : Stamps, uuid : Stamps]

ASSUME MaxRoundsAssumption == MaxRounds \in Nat
ASSUME LastIdAssumption == LastId \in Nat
ASSUME LettersAssumption == /\ {Sep, Esc, Dot, TAB, NL, AD, A0, Bad, "n"} \subseteq Letters
                            /\ {"C3", "byte AD", "byte A0"} \cap Letters = {}
ASSUME StampsAssumption == /\ NowAt \in [1..MaxRounds -> [Ids -> Stamps]]
                           /\ FreshAt \in [1..MaxRounds -> [Ids -> Stamps]]
                           /\ FirstNul \subseteq Stamps
                           /\ CString \in [Stamps -> Stamps]
ASSUME UsersAssumption == Users \subseteq Text
ASSUME DocsAssumption ==
  \A d \in Docs : /\ d = [tree |-> d.tree, entries |-> d.entries]
                  /\ Tree(d.tree)
                  /\ d.entries \in [Ids -> EntriesIn(d.tree)]

VARIABLES
  doc,      \* the safe: its groups (GroupPath) and its entries
  default_user,   \* PwordEditDlg::default_user
  file,     \* the safe, the default user and the format of the last save
  pc,       \* "open", "saved" (and closed), "refused": the load failed
  start,    \* history: the safe at the beginning
  last,     \* history: the format the open safe was loaded from
  rounds

formatsVars == <<doc, default_user, file, pc, start, last, rounds>>

-----------------------------------------------------------------------------
\* The parts of s between the occurrences of c, and parts with c between them.
Split(s, c) ==
  LET parts[k \in 0..Len(s)] ==
        LET p == parts[k - 1]
        IN  IF k = 0 THEN << <<>> >>
            ELSE IF s[k] = c THEN Append(p, <<>>)
            ELSE Append(Front(p), Append(Last(p), s[k]))
  IN  parts[Len(s)]

Joined(parts, c) ==
  FlattenSeq([k \in DOMAIN parts |-> parts[k] \o (IF k < Len(parts) THEN <<c>> ELSE <<>>)])

\* toUtf8 and fromUtf8 as far as the bytes AD and A0 go.
Bytes(s) ==
  FlattenSeq([k \in DOMAIN s |-> CASE s[k] = AD -> <<"C3", "byte AD">>
                                   [] s[k] = A0 -> <<"C3", "byte A0">>
                                   [] OTHER     -> <<s[k]>>])

FromUtf8(b) ==
  LET Led(k)  == k > 1 /\ b[k - 1] = "C3"
      Leads(k) == k < Len(b) /\ b[k + 1] \in {"byte AD", "byte A0"}
  IN  FlattenSeq([k \in DOMAIN b |-> CASE b[k] = "C3"      -> IF Leads(k) THEN <<>> ELSE <<Bad>>
                                       [] b[k] = "byte AD" -> <<IF Led(k) THEN AD ELSE Bad>>
                                       [] b[k] = "byte A0" -> <<IF Led(k) THEN A0 ELSE Bad>>
                                       [] OTHER            -> <<b[k]>>])

-----------------------------------------------------------------------------
\* BlowfishLizer::writeEntry(entry, def_user): the name and the user in one record.
NameRecord(e, def_user) ==
  Bytes(e.name) \o (IF e.user = def_user THEN <<"byte A0">>
                    ELSE <<"byte AD">> \o Bytes(e.user))

\* BlowfishLizer::readEntry: the user is what follows a byte AD; a byte A0
\* means the default user of now, and stays in the name.
NameAndUser(r, def_user) ==
  LET parts == Split(r, "byte AD")
  IN  IF Len(parts) = 2
      THEN [name |-> FromUtf8(parts[1]), user |-> FromUtf8(parts[2])]
      ELSE [name |-> FromUtf8(r),
            user |-> IF Len(Split(r, "byte A0")) = 2 THEN def_user ELSE <<>>]

\* BlowfishLizer: no groups, no times, no UUIDs.
Through1(e, saved_as, read_as, now, id) ==
  LET nu == NameAndUser(NameRecord(e, saved_as), read_as)
  IN  [e EXCEPT !.name = nu.name, !.user = nu.user, !.group = 0,
                !.modified = now, !.uuid = id]

-----------------------------------------------------------------------------
\* The group's full name as it is found in a file of the format.
PathIn(fmt, d, e) ==
  LET path == groupName(d.tree, d.entries[e].group)
  IN  IF fmt = "v2" THEN parseGroup(readyGroup(path)) ELSE path

\* Entry by entry, findOrCreateGroup; Placed: what it answers for each entry.
Placed(fmt, d) ==
  LET place[e \in 0..LastId] ==
        IF e = 0 THEN [tree |-> <<>>, group |-> 0]
        ELSE findOrCreateGroup(place[e - 1].tree, PathIn(fmt, d, e))
  IN  place

WithGroups(fmt, d) ==
  LET place == Placed(fmt, d)
  IN  [tree    |-> place[LastId].tree,
       entries |-> [e \in Ids |-> [d.entries[e] EXCEPT !.group = place[e].group]]]

\* BlowfishLizer2: raw bytes go through C strings both ways, and a record that
\* is empty then leaves what the item had (RecordFile).
RawBack(v, own) == IF v \in FirstNul THEN own ELSE CString[v]

Through2(e, now, id) ==
  [e EXCEPT !.uuid = RawBack(e.uuid, id), !.modified = RawBack(e.modified, now)]

-----------------------------------------------------------------------------
\* PlainTextLizer::saveEntry: notes.replace('\n', "\\n")
NotesOut(s) ==
  FlattenSeq([k \in DOMAIN s |-> IF s[k] = NL THEN <<Esc, "n">> ELSE <<s[k]>>])

\* Mutant of NotesIn: nothing is replaced.
NotesIn_Literal(s) == s

\* PlainTextLizer::load: line.replace("\\n", "\n")
NotesIn(s) ==
  LET read[k \in 0..Len(s)] ==
        LET t == read[k - 1]
        IN  IF k = 0 THEN <<>>
            ELSE IF s[k] = "n" /\ t # <<>> /\ Last(t) = Esc THEN Append(Front(t), NL)
            ELSE Append(t, s[k])
  IN  read[Len(s)]

\* What the file holds for an entry: a line of nine fields, and the notes.
EntryText(d, e) ==
  LET f == d.entries[e]
      fields == <<f.name, f.user, f.password, PathIn("txt", d, e), <<"created">>,
                  <<f.modified>>, <<"accessed">>, <<"lifetime">>, <<f.uuid>>>>
  IN  Joined(fields, TAB) \o <<NL>> \o NotesOut(f.notes) \o <<NL>>

\* A line that has not nine fields is BadFile: with a TAB in a field it has
\* more, with a line break the first part of it has fewer.
Readable(d, e) ==
  LET lines == Split(EntryText(d, e), NL)
  IN  Len(lines) = 3 /\ Len(Split(lines[1], TAB)) = 9

\* Setting the notes comes last and sets the modification time.
ThroughText(d, e, now) ==
  LET lines == Split(EntryText(d, e), NL)
      items == Split(lines[1], TAB)
  IN  [d.entries[e] EXCEPT !.name = items[1], !.user = items[2], !.password = items[3],
                           !.uuid = items[9][1], !.notes = NotesIn(lines[2]),
                           !.modified = now]

-----------------------------------------------------------------------------
\* A text node of white space only is dropped when the file is parsed.
Seen(s) == IF \A k \in DOMAIN s : s[k] \in {TAB, NL} THEN <<>> ELSE s

SeenLines(s) == LET lines == Split(s, NL) IN [k \in DOMAIN lines |-> Seen(lines[k])]
LinesSeen(s) == Joined(SeenLines(s), NL)

\* Mutant of ThroughXml: the lines of the notes are joined without a break.
ThroughXml_OneLine(e) ==
  [e EXCEPT !.name = Seen(e.name), !.user = Seen(e.user), !.password = Seen(e.password),
            !.notes = FlattenSeq(SeenLines(e.notes))]

\* XmlSerializer: an element for each field, one for each line of the notes; the
\* name of a group is an attribute.
ThroughXml(e) ==
  [e EXCEPT !.name = Seen(e.name), !.user = Seen(e.user), !.password = Seen(e.password),
            !.notes = LinesSeen(e.notes)]

-----------------------------------------------------------------------------
FormatsInit ==
  /\ doc \in Docs
  /\ start = doc
  /\ default_user \in Users
  /\ file = [fmt |-> "", doc |-> doc, user |-> default_user]
  /\ pc = "open"
  /\ last = ""
  /\ rounds = 0

\* The safe is saved, and closed.
Save(fmt) ==
  /\ pc = "open" /\ rounds < MaxRounds
  /\ file' = [fmt |-> fmt, doc |-> doc, user |-> default_user]
  /\ pc' = "saved"
  /\ rounds' = rounds + 1
  /\ UNCHANGED <<doc, default_user, start, last>>

\* The preferences dialog sets the default user.
SetDefaultUser ==
  /\ pc # "refused"
  /\ \E user \in Users : default_user' = user
  /\ UNCHANGED <<doc, file, pc, start, last, rounds>>

Opened(d) == pc' = "open" /\ doc' = d /\ last' = file.fmt

Load1 ==
  /\ pc = "saved" /\ file.fmt = "v1"
  /\ Opened([tree |-> <<>>,
             entries |-> [e \in Ids |-> Through1(file.doc.entries[e], file.user, default_user,
                                                NowAt[rounds][e], FreshAt[rounds][e])]])
  /\ UNCHANGED <<default_user, file, start, rounds>>

Load2 ==
  /\ pc = "saved" /\ file.fmt = "v2"
  /\ LET d == WithGroups("v2", file.doc)
     IN  Opened([tree |-> d.tree,
                 entries |-> [e \in Ids |-> Through2(d.entries[e], NowAt[rounds][e],
                                                    FreshAt[rounds][e])]])
  /\ UNCHANGED <<default_user, file, start, rounds>>

LoadText ==
  /\ pc = "saved" /\ file.fmt = "txt"
  /\ \/ /\ \A e \in Ids : Readable(file.doc, e)
        /\ LET read == [e \in Ids |-> ThroughText(file.doc, e, NowAt[rounds][e])]
               d    == WithGroups("txt", file.doc)
           IN  Opened([tree |-> d.tree,
                       entries |-> [e \in Ids |-> [read[e] EXCEPT !.group = d.entries[e].group]]])
     \/ /\ \E e \in Ids : ~Readable(file.doc, e)
        /\ pc' = "refused"
        /\ UNCHANGED <<doc, last>>
  /\ UNCHANGED <<default_user, file, start, rounds>>

LoadXml ==
  /\ pc = "saved" /\ file.fmt = "xml"
  /\ Opened([tree |-> file.doc.tree,
             entries |-> [e \in Ids |-> ThroughXml(file.doc.entries[e])]])
  /\ UNCHANGED <<default_user, file, start, rounds>>

Load == Load1 \/ Load2 \/ LoadText \/ LoadXml
FormatsNext == Load \/ SetDefaultUser \/ \E fmt \in FormatNames : Save(fmt)

FormatsSpec == FormatsInit /\ [][FormatsNext]_formatsVars

-----------------------------------------------------------------------------
\* Whatever formats a safe goes through, in whatever order, a password is the
\* one that was entered, and the notes too but for \n turned into a line break,
\* except that XML drops a password, or a line, of nothing but white space.
SecretsSurvive ==
  pc # "refused" => \A e \in Ids :
    LET f == doc.entries[e]
        g == start.entries[e]
    IN  /\ f.password \in {g.password, Seen(g.password)}
        /\ LinesSeen(NotesIn(f.notes)) = LinesSeen(NotesIn(g.notes))

\* What one save and load keep of the fields of an entry (g: the entry saved).
\* Version 2: the texts, and raw bytes without a NUL in them.  XML: all but the
\* texts that are white space.  Text: all but the modification time, with \n
\* in the notes read as a line break.  Version 1, when no letter looks like one
\* of its marks: the password, the notes and the user, if the default user is
\* still the same where he was the entry's; the name, if he was not.
Same(e, fields) == \A x \in fields : doc'.entries[e][x] = file.doc.entries[e][x]

Unmarked(s) == \A k \in DOMAIN s : s[k] \notin {AD, A0}
Clean(v) == v \notin FirstNul /\ CString[v] = v

FieldsKept ==
  [][pc = "saved" /\ pc' = "open" => \A e \in Ids :
       LET g == file.doc.entries[e]
       IN  CASE file.fmt = "v2" ->
                  /\ Same(e, {"name", "user", "password", "notes"})
                  /\ Same(e, {x \in {"uuid", "modified"} : Clean(g[x])})
             [] file.fmt = "xml" ->
                  /\ Same(e, {"uuid", "modified"})
                  /\ Same(e, {x \in {"name", "user", "password"} : Seen(g[x]) = g[x]})
                  /\ LinesSeen(g.notes) = g.notes => Same(e, {"notes"})
             [] file.fmt = "txt" ->
                  /\ Same(e, {"name", "user", "password", "uuid"})
                  /\ NotesIn(g.notes) = g.notes => Same(e, {"notes"})
             [] file.fmt = "v1" ->
                  /\ Same(e, {"password", "notes"})
                  /\ Unmarked(g.name) /\ Unmarked(g.user) =>
                       /\ g.user # file.user => Same(e, {"name", "user"})
                       /\ g.user = default_user => Same(e, {"user"})]_formatsVars

\* Groups whose names are not empty and do not end in an escape character come
\* back under the same names, and what was in one group is in one group
\* (groupName, readyGroup, parseGroup and findOrCreateGroup together).
PlainName(s) == s # <<>> /\ Last(s) # Esc

GroupsKept ==
  [][pc = "saved" /\ pc' = "open" /\ file.fmt # "v1"
       /\ (\A n \in DOMAIN file.doc.tree : PlainName(file.doc.tree[n].name))
     => \A e, f \in Ids :
          /\ NamesOf(doc'.tree, doc'.entries[e].group)
               = NamesOf(file.doc.tree, file.doc.entries[e].group)
          /\ file.doc.entries[e].group = file.doc.entries[f].group
               => doc'.entries[e].group = doc'.entries[f].group]_formatsVars

\* The strings findOrCreateGroup(name) may hand to unescapeGroup: the sections of
\* its path and of those above it, and the last name of each.
Sections(path) ==
  LET rest[k \in 0..Len(path)] == IF k = 0 THEN path ELSE AfterSection(rest[k - 1])
  IN  {Section(rest[k]) : k \in {i \in 0..Len(path) : rest[i] # <<>>}}

Unescaped(name) ==
  LET above[k \in 0..Len(name)] == IF k = 0 THEN SearchPath(name) ELSE parentGroup(above[k - 1])
  IN  UNION {Sections(above[k]) \cup {thisGroup(above[k])}
               : k \in {i \in 0..Len(name) : above[i] # <<>>}}

\* No path a save writes makes unescapeGroup throw when it is loaded: nobody
\* catches an EscapeException, whatever the groups are called.
NeverThrows ==
  pc = "saved" /\ file.fmt \in {"v2", "txt"} =>
    \A e \in Ids : \A s \in Unescaped(PathIn(file.fmt, file.doc, e)) : ~unescapeThrows(s)

\* Once a safe has been through a format, going through it again changes no
\* text and no group more, however its groups are called; in the text formats
\* no UUID either, and in XML no time.  (Version 1 is not like that: the mark of
\* the default user adds to the name every time.)
StableAfterOne ==
  [][pc = "saved" /\ pc' = "open" /\ file.fmt = last /\ last # "v1"
     => \A e \in Ids :
          /\ NamesOf(doc'.tree, doc'.entries[e].group)
               = NamesOf(file.doc.tree, file.doc.entries[e].group)
          /\ Same(e, {"name", "user", "password", "notes"})
          /\ last # "v2" => Same(e, {"uuid"})
          /\ last = "xml" => Same(e, {"modified"})]_formatsVars
=============================================================================
