----------------------------- MODULE SafeTree -----------------------------
(***************************************************************************)
(* The tree of items of a Safe (SafeItem, SafeGroup, SafeEntry and Safe of  *)
(* safe.cpp) and the model the window shows it through (safetreemodel.cpp). *)
(*                                                                         *)
(* Groups hold a list of pointers to items and items point back to their    *)
(* group and their safe; QObject keeps a second tree, of the parents given  *)
(* to the constructors, and deletes along it too.  Destructors call each    *)
(* other through takeItem and empty: `stack' holds the calls under way.     *)
(***************************************************************************)
EXTENDS Integers, Sequences, FiniteSets

CONSTANTS
  Safe,     \* the root
  Groups,   \* the addresses groups may get
  Entries   \* the addresses entries may get

NULL == "NULL"

ASSUME ItemsAssumption == /\ Safe \notin Groups \cup Entries
                          /\ Groups \cap Entries = {}
                          /\ NULL \notin Groups \cup Entries \cup {Safe}

SafeGroups == Groups \cup {Safe}        \* rtti() = SafeGroup::RTTI
Items      == SafeGroups \cup Entries

VARIABLES
  alive,     \* the items that are constructed and not yet destroyed
  m_items,   \* group -> its list
  m_parent,  \* item -> its group or NULL
  m_safe,    \* item -> its safe or NULL
  qparent,   \* item -> the parent QObject knows
  stack,     \* the calls of ~SafeItem and SafeGroup::empty under way
  before     \* history: alive and m_items when the first of them was made, and
             \* the items that should go

vars == <<alive, m_items, m_parent, m_safe, qparent, stack, before>>

Frames == [op : {"delete", "empty"}, item : Items]

TypeOK ==
  /\ alive \subseteq Items
  /\ m_items \in [SafeGroups -> Seq(Items)]
  /\ m_parent \in [Items -> SafeGroups \cup {NULL}]
  /\ m_safe \in [Items -> {Safe, NULL}]
  /\ qparent \in [Items -> SafeGroups \cup {NULL}]
  /\ stack \in Seq(Frames)
  /\ before.alive \subseteq Items
  /\ before.items \in [SafeGroups -> Seq(Items)]
  /\ before.going \subseteq Items

NoCall == [alive |-> {}, items |-> [g \in SafeGroups |-> <<>>], going |-> {}]

\* Safe::Safe: its own safe(), in no group.
Init ==
  /\ alive = {Safe}
  /\ m_items = [g \in SafeGroups |-> <<>>]
  /\ m_parent = [i \in Items |-> NULL]
  /\ m_safe = [i \in Items |-> IF i = Safe THEN Safe ELSE NULL]
  /\ qparent = [i \in Items |-> NULL]
  /\ stack = <<>>
  /\ before = NoCall

Idle  == stack = <<>> /\ Safe \in alive
Loose == {i \in alive \ {Safe} : m_parent[i] = NULL}

-----------------------------------------------------------------------------
Kids(i) == IF i \in SafeGroups THEN m_items[i] ELSE <<>>

\* An item with all below it: the least set closed under the lists.
Subtree(i) ==
  {j \in alive : \A S \in SUBSET alive :
     (i \in S /\ \A g \in S : \A k \in DOMAIN Kids(g) : Kids(g)[k] \in S) => j \in S}

\* Mutant of Without: removeFirst.
Without_First(s, i) == Tail(s)

\* What is left of a list when only the items of T stay, in their order.
Kept(s, T) ==
  LET kept[n \in 0..Len(s)] ==
        IF n = 0 THEN <<>>
        ELSE IF s[n] \in T THEN Append(kept[n - 1], s[n]) ELSE kept[n - 1]
  IN  kept[Len(s)]

\* removeAll
Without(s, i) == Kept(s, Items \ {i})

\* Mutant of Listed: setParent does not look whether the list has the item.
Listed_Unasked(s, i) == Append(s, i)

\* setParent adds the item to the list only if index(this) is -1.
Listed(s, i) == IF \E k \in DOMAIN s : s[k] = i THEN s ELSE Append(s, i)

\* The constructor of an item with a parent: SafeItem's calls setParent, and
\* SafeGroup's calls it again.
Construct(p, i) ==
  /\ i \notin alive
  /\ alive' = alive \cup {i}
  /\ m_items' = [m_items EXCEPT
                   ![p] = IF i \in Groups THEN Listed(Listed(@, i), i) ELSE Listed(@, i)]
  /\ m_parent' = [m_parent EXCEPT ![i] = p]
  /\ m_safe' = [m_safe EXCEPT ![i] = m_safe[p]]
  /\ qparent' = [qparent EXCEPT ![i] = p]
  /\ UNCHANGED <<stack, before>>

\* MyPasswordSafe::createGroup, findOrCreateGroup and the XML loader.
CreateGroup == Idle /\ \E p \in SafeGroups \cap alive, g \in Groups : Construct(p, g)

\* The edit dialog and the version 1, text and XML loaders.
CreateEntry == Idle /\ \E p \in SafeGroups \cap alive, e \in Entries : Construct(p, e)

\* BlowfishLizer2::load makes its entries without a parent.
CreateLoose ==
  /\ Idle /\ Loose = {}
  /\ \E e \in Entries \ alive : alive' = alive \cup {e}
  /\ UNCHANGED <<m_items, m_parent, m_safe, qparent, stack, before>>

\* Mutant of AddItem: the group is taken for the safe.
AddItem_GroupAsSafe ==
  /\ Idle
  /\ \E e \in Loose, p \in SafeGroups \cap alive :
       /\ m_items' = [m_items EXCEPT ![p] = Append(@, e)]
       /\ m_parent' = [m_parent EXCEPT ![e] = p]
       /\ m_safe' = [m_safe EXCEPT ![e] = p]
  /\ UNCHANGED <<alive, qparent, stack, before>>

\* SafeGroup::addItem of such an entry: QObject is not told.
AddItem ==
  /\ Idle
  /\ \E e \in Loose, p \in SafeGroups \cap alive :
       /\ m_items' = [m_items EXCEPT ![p] = Append(@, e)]
       /\ m_parent' = [m_parent EXCEPT ![e] = p]
       /\ m_safe' = [m_safe EXCEPT ![e] = m_safe[p]]
  /\ UNCHANGED <<alive, qparent, stack, before>>

-----------------------------------------------------------------------------
Call(op, i) == stack' = Append(stack, [op |-> op, item |-> i])

Begin(op, i, going) ==
  /\ Call(op, i)
  /\ before' = [alive |-> alive, items |-> m_items, going |-> going]
  /\ UNCHANGED <<alive, m_items, m_parent, m_safe, qparent>>

\* SafeTreeModel::removeRows of the one row pwordDelete asks for.
RemoveRow ==
  /\ Idle
  /\ \E p \in SafeGroups \cap alive : \E row \in DOMAIN m_items[p] :
       Begin("delete", m_items[p][row], Subtree(m_items[p][row]))

\* The loader has read nothing into it.
DropLoose == Idle /\ \E e \in Loose : Begin("delete", e, {e})

\* Safe::load empties the safe before each serializer it tries.
EmptySafe == Idle /\ Begin("empty", Safe, Subtree(Safe) \ {Safe})

\* MyPasswordSafe::closeSafe.
DeleteSafe == Idle /\ Loose = {} /\ Begin("delete", Safe, Subtree(Safe))

\* The next safe is made when there is none.
NewSafe ==
  /\ stack = <<>> /\ Safe \notin alive
  /\ alive' = alive \cup {Safe}
  /\ m_safe' = [m_safe EXCEPT ![Safe] = Safe]
  /\ UNCHANGED <<m_items, m_parent, qparent, stack, before>>

Top == stack[Len(stack)]
Pop == /\ stack' = SubSeq(stack, 1, Len(stack) - 1)
       /\ before' = IF Len(stack) = 1 THEN NoCall ELSE before

\* SafeGroup::empty: while(count() > 0) delete m_items.first()
EmptyNext ==
  /\ stack # <<>> /\ Kids(Top.item) # <<>>
  /\ Call("delete", Head(Kids(Top.item)))
  /\ UNCHANGED <<alive, m_items, m_parent, m_safe, qparent, before>>

\* ... and its end, when load called it.
EmptyDone ==
  /\ stack # <<>> /\ Kids(Top.item) = <<>> /\ Top.op = "empty"
  /\ Pop
  /\ UNCHANGED <<alive, m_items, m_parent, m_safe, qparent>>

\* Mutant of TakeOut: takeItem leaves the list alone.
TakeOut_StaysListed(i) ==
  /\ m_parent' = [m_parent EXCEPT ![i] = NULL]
  /\ m_safe' = [m_safe EXCEPT ![i] = NULL]
  /\ UNCHANGED m_items

\* SafeGroup::takeItem, called by ~SafeItem.
TakeOut(i) ==
  /\ m_items' = [m_items EXCEPT ![m_parent[i]] = Without(@, i)]
  /\ m_parent' = [m_parent EXCEPT ![i] = NULL]
  /\ m_safe' = [m_safe EXCEPT ![i] = NULL]

Destructing == stack # <<>> /\ Kids(Top.item) = <<>> /\ Top.op = "delete"

LeaveGroup ==
  /\ Destructing /\ m_parent[Top.item] # NULL
  /\ TakeOut(Top.item)
  /\ UNCHANGED <<alive, qparent, stack, before>>

\* ~QObject leaves its parent's children, and the memory is free.
Free ==
  /\ Destructing /\ m_parent[Top.item] = NULL
  /\ alive' = alive \ {Top.item}
  /\ qparent' = [qparent EXCEPT ![Top.item] = NULL]
  /\ Pop
  /\ UNCHANGED <<m_items, m_parent, m_safe>>

Destroy == EmptyNext \/ EmptyDone \/ LeaveGroup \/ Free

Next == \/ CreateGroup \/ CreateEntry \/ CreateLoose \/ AddItem
        \/ RemoveRow \/ DropLoose \/ EmptySafe \/ DeleteSafe \/ NewSafe
        \/ Destroy

Spec == Init /\ [][Next]_vars /\ WF_vars(Destroy)

-----------------------------------------------------------------------------
\* Safe::totalNumItems: one pass over the items of a group, `total' being the
\* calls for the groups among them.
CountIn(g, total, type) ==
  LET count[k \in 0..Len(m_items[g])] ==
        IF k = 0 THEN 0
        ELSE count[k - 1] + (IF m_items[g][k] \in type THEN 1 ELSE 0)
                          + (IF m_items[g][k] \in Groups THEN total[m_items[g][k]] ELSE 0)
  IN  count[Len(m_items[g])]

totalNumItems(type) ==
  LET total[g \in SafeGroups] == CountIn(g, total, type)
  IN  total[Safe]

\* SafeTreeModel: rowCount, index(row, parent), index(item) and parent(index);
\* the root has the invalid index, here row -1.
rowCount(g) == Len(Kids(g))
RowOf(i) ==
  IF i = Safe THEN -1
  ELSE (CHOOSE k \in DOMAIN Kids(m_parent[i]) :
          /\ Kids(m_parent[i])[k] = i
          /\ \A l \in 1..k - 1 : Kids(m_parent[i])[l] # i) - 1
index(row, g)   == [row |-> row, item |-> Kids(g)[row + 1]]
indexOf(i) == [row |-> RowOf(i), item |-> i]

\* Mutant of parentOf: the row of the child.
parentOf_ChildsRow(idx) == [row |-> idx.row, item |-> m_parent[idx.item]]

parentOf(idx) == indexOf(m_parent[idx.item])

\* The list of a group and the pointers of its items agree, each item is listed
\* once, and neither points to an item that is gone.
LinksAgree ==
  /\ \A i \in alive : m_parent[i] # NULL =>
       /\ m_parent[i] \in alive
       /\ \E k \in DOMAIN m_items[m_parent[i]] : m_items[m_parent[i]][k] = i
  /\ \A g \in SafeGroups \cap alive : \A k \in DOMAIN m_items[g] :
       /\ m_items[g][k] \in alive
       /\ m_parent[m_items[g][k]] = g
       /\ \A l \in DOMAIN m_items[g] : m_items[g][l] = m_items[g][k] => k = l

\* No destructor runs twice: the items under destruction exist and differ.
DeletedOnce ==
  /\ \A k \in DOMAIN stack : stack[k].item \in alive
  /\ \A k, l \in DOMAIN stack : stack[k].item = stack[l].item => k = l

\* QObject, whose tree holds only the items made with a parent, finds nothing
\* left to delete when an item's own destructor is through.
QObjectFindsNone ==
  Destructing /\ m_parent[Top.item] = NULL
    => \A i \in alive : qparent[i] # Top.item

\* After any calls of addItem, setParent, takeItem and empty, and at every step
\* of a destructor that calls into other items, the lists, the pointers and
\* QObject's tree describe one tree, and no item is freed twice.
TreeIsSound == LinksAgree /\ DeletedOnce /\ QObjectFindsNone

\* A deletion takes the item and all below it, nothing else, and leaves the
\* order of what stays alone.
DeletesTheSubtree ==
  [][stack # <<>> /\ stack' = <<>> =>
       /\ alive' = before.alive \ before.going
       /\ \A g \in SafeGroups \cap alive' :
            m_items'[g] = Kept(before.items[g], alive')]_vars

\* The loop of empty ends: every delete takes its item out of the list.
DeletionEnds == stack # <<>> ~> stack = <<>>

\* totalNumItems counts the items that exist.
TotalsAgree ==
  Idle => /\ totalNumItems(Entries) = Cardinality((alive \cap Entries) \ Loose)
          /\ totalNumItems(Groups) = Cardinality(alive \cap Groups)

\* What Qt demands of a model: the parent of a row's index is the index of the
\* group, and an item's index is the one its row gives.
IndexesAgree ==
  Idle => \A g \in SafeGroups \cap alive : \A row \in 0..rowCount(g) - 1 :
            /\ parentOf(index(row, g)) = indexOf(g)
            /\ indexOf(index(row, g).item) = index(row, g)

\* What the window shows of a safe at rest is the safe: the counts in the status
\* bar, and the rows and parents the view gets from the model.
ViewAgrees == TotalsAgree /\ IndexesAgree
=============================================================================
