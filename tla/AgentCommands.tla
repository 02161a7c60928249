----------------------------- MODULE AgentCommands -----------------------------
(***************************************************************************)
(* The structural commands of one agent batch (office/agent/commands.py)   *)
(* on the XML tree of a section: add, remove, move and copy, with the      *)
(* positions they take, the runs and controls they make and unmake, the    *)
(* identities a copy gets, the row addresses of tables and the layout      *)
(* caches of paragraphs.  A command that the code refuses is not enabled;  *)
(* what becomes of its batch is the subject of BatchApply.  A command      *)
(* names any node of the view projected after the command before: the      *)
(* inside of a note, or of an element the model calls other, is not there. *)
(***************************************************************************)
EXTENDS Naturals, SequencesExt

CONSTANTS
    Documents,      \* the trees a batch may find
    MaxCommands     \* bound on the commands of a batch

\* A cell is part of its row; "note" is a footnote or an endnote, "text" is hp:t
\* and "other" a child of the section that is no paragraph.
Direct == {"paragraph", "run", "row"}
Inline == {"table", "picture", "note"}
Addressable == Direct \cup Inline
Kinds == Addressable \cup {"section", "text", "ctrl", "other"}

\* The kinds of the elements that hold one of kind k.
Holders(k) == CASE k = "section" -> {}
                [] k = "paragraph" -> {"section", "row", "note", "other"}
                [] k = "run" -> {"paragraph"}
                [] k = "row" -> {"table"}
                [] k \in {"table", "picture", "ctrl", "text"} -> {"run"}
                [] k = "note" -> {"ctrl"}
                [] k = "other" -> Kinds \ {"table"}

\* How the cells of a row take part in a vertical merge.
Shapes == {"full", "spans", "covered"}

\* _ADD_PARENTS and _MOVE_COPY_PARENTS.
Home(k) == CASE k = "paragraph" -> "section"
             [] k = "row" -> "table"
             [] k \in {"run"} \cup Inline -> "paragraph"

Ops == {"none", "add", "remove", "move", "copy"}
Modes == {"append", "prepend", "index", "before", "after"}
Place == [mode : Modes, at : Nat]

Section == 1

\* A tree, given as the sequence t of the children of every node: no node is held
\* twice, and none by what is below it.
IsTree(t) ==
    /\ t \in Seq(Seq(DOMAIN t))
    /\ Section \in DOMAIN t
    /\ \A m \in DOMAIN t : IsInjective(t[m]) /\ Section \notin ToSet(t[m])
    /\ \A m, n \in DOMAIN t : m # n => ToSet(t[m]) \cap ToSet(t[n]) = {}
    /\ \A S \in SUBSET DOMAIN t : S # {} => \E n \in S : \A m \in S : n \notin ToSet(t[m])

InTree(t) == {Section} \cup UNION {ToSet(t[m]) : m \in DOMAIN t}

\* Every element is held by one that may, a control holds something, and the row
\* before a covered one spans it.
IsDocument(d) ==
    /\ IsTree(d.kids) /\ InTree(d.kids) = DOMAIN d.kids
    /\ d.kind \in [DOMAIN d.kids -> Kinds]
    /\ d.kind[Section] = "section"
    /\ \A m \in DOMAIN d.kids :
          /\ \A n \in ToSet(d.kids[m]) : d.kind[m] \in Holders(d.kind[n])
          /\ d.kind[m] = "ctrl" => d.kids[m] # <<>>
          /\ \A i \in DOMAIN d.kids[m] :
                d.kids[m][i] \in d.covered => i > 1 /\ d.kids[m][i - 1] \in d.spans

ASSUME CommandsAssumption ==
    /\ MaxCommands \in Nat
    /\ \A d \in Documents : IsDocument(d)

VARIABLES
    kids,       \* the children of every node, in the order nodes are made
    kind,
    id,         \* its identity; 0 for none, for one the library gives to what it
                \* makes, and for whatever is inside a note, which is no identity
                \* of the document and which a copy keeps
    shape,      \* of a row
    addr,       \* the rowAddr of a row
    cached,     \* the paragraphs with a line layout cache
    count, last \* the commands so far, and the last of them

vars == <<kids, kind, id, shape, addr, cached, count, last>>

Nodes == DOMAIN kids

TypeOK ==
    /\ kids \in Seq(Seq(Nodes))
    /\ kind \in [Nodes -> Kinds]
    /\ id \in [Nodes -> Nat]
    /\ shape \in [Nodes -> Shapes]
    /\ addr \in [Nodes -> Nat]
    /\ cached \subseteq Nodes
    /\ count \in 0..MaxCommands
    /\ last \in [op : Ops, node : Nat, into : Nat, pos : Place]

-----------------------------------------------------------------------------
\* Trees.

IndexOf(s, x) == CHOOSE i \in DOMAIN s : s[i] = x

\* The i-th node of s is followed by its children.
Visit(t, s, i) ==
    IF i > Len(s) THEN s ELSE SubSeq(s, 1, i) \o t[s[i]] \o SubSeq(s, i + 1, Len(s))

\* The nodes of a subtree in document order.
Below(t, n) ==
    LET walk[i \in 0..Len(t)] == IF i = 0 THEN <<n>> ELSE Visit(t, walk[i - 1], i)
    IN  walk[Len(t)]

Up(t, n) == CHOOSE m \in DOMAIN t : Contains(t[m], n)
Inside(t, n) == ToSet(Below(t, n)) \ {n}
Drop(t, n) == [t EXCEPT ![Up(t, n)] = RemoveFirst(@, n)]

\* A removed subtree is taken apart: t without what is below n.
Cleared(t, n) ==
    LET gone == ToSet(Below(t, n))
    IN  [m \in DOMAIN t |-> IF m \in gone THEN <<>> ELSE t[m]]
Prune(t, n) == Cleared(Drop(t, n), n)

RunOf(t, n) == IF kind[Up(t, n)] = "ctrl" THEN Up(t, Up(t, n)) ELSE Up(t, n)

\* The record parent: an inline object belongs to its paragraph.
Holder(t, n) == IF kind[n] \in Inline THEN Up(t, RunOf(t, n)) ELSE Up(t, n)

\* What the nodes of a sequence hold in place of those of kind k.
Opened(t, k) ==
    [s \in Seq(Nat) |-> FlattenSeq([i \in DOMAIN s |-> IF kind[s[i]] = k THEN t[s[i]] ELSE <<s[i]>>])]

\* What the lines of a paragraph are made of: what its runs and their controls hold.
Content(t, p) == Opened(t, "ctrl")[Opened(t, "run")[t[p]]]

\* The nodes of a sequence that are of kind k.
OfKind(k) ==
    [s \in Seq(Nat) |-> FlattenSeq([i \in DOMAIN s |-> IF kind[s[i]] = k THEN <<s[i]>> ELSE <<>>])]

\* _sibling_elements
Siblings(t, p, k) == OfKind(k)[IF k \in Inline THEN Content(t, p) ELSE t[p]]

Merged(t, table) == \E i \in DOMAIN t[table] : shape[t[table][i]] = "spans"

\* _refresh_table_rows
Renumber(t, a, tables) ==
    [r \in DOMAIN t |-> IF \E b \in tables : Contains(t[b], r)
                        THEN IndexOf(t[CHOOSE b \in tables : Contains(t[b], r)], r)
                        ELSE a[r]]

-----------------------------------------------------------------------------
\* Positions.

At(mode, at) == [mode |-> mode, at |-> at]
Positions(s) ==
    {At("append", 0), At("prepend", 0)}
    \cup {At("index", i) : i \in 1..Len(s) + 1}
    \cup {At(mode, a) : mode \in {"before", "after"}, a \in ToSet(s)}

\* _insertion_index: how many siblings come before.
Insertion(s, pos) ==
    CASE pos.mode = "append"  -> Len(s)
      [] pos.mode = "prepend" -> 0
      [] pos.mode = "index"   -> pos.at - 1
      [] pos.mode = "before"  -> IndexOf(s, pos.at) - 1
      [] pos.mode = "after"   -> IndexOf(s, pos.at)

\* Bug: the place the moved node leaves is not taken off.
LandingStays(s, n, pos) ==
    IF Contains(s, n) /\ pos.mode \notin {"before", "after"}
    THEN Insertion(RemoveFirst(s, n), pos)
    ELSE Insertion(s, pos)

\* The index _move inserts at, once the node is gone from where it was.
Landing(s, n, pos) ==
    IF ~Contains(s, n)
    THEN Insertion(s, pos)
    ELSE IF pos.mode \notin {"before", "after"}
         THEN Insertion(RemoveFirst(s, n), pos)
         ELSE IF IndexOf(s, n) <= Insertion(s, pos) THEN Insertion(s, pos) - 1 ELSE Insertion(s, pos)

\* _insert_direct_child
InsertDirect(t, p, s, i, x) ==
    [t EXCEPT ![p] =
        IF s = <<>> THEN Append(@, x)
        ELSE IF i >= Len(s) THEN InsertAt(@, IndexOf(@, Last(s)) + 1, x)
        ELSE InsertAt(@, IndexOf(@, s[i + 1]), x)]

\* _insert_inline: the object gets a run of its own, at the end of the paragraph
\* or before the run of the sibling that is to follow it, and a note a control.
InsertInline(t, p, s, i, x, k) ==
    LET run == Len(t) + 1
        wrapped == t \o (IF k = "note" THEN <<<<run + 1>>, <<x>>>> ELSE <<<<x>>>>)
    IN  [wrapped EXCEPT ![p] =
            IF i >= Len(s) THEN Append(@, run)
            ELSE InsertAt(@, IndexOf(@, RunOf(t, s[i + 1])), run)]
Wrapping(k) == IF k = "note" THEN <<"run", "ctrl">> ELSE <<"run">>

\* Bug: the run goes whatever else it holds.
DetachInlineRun(t, n) == Drop(Drop(t, n), RunOf(t, n))

\* _remove_inline_element: an emptied control goes, and so does an emptied run.
DetachInline(t, n) ==
    LET up == Up(t, n)
        run == RunOf(t, n)
        without == Drop(t, n)
        bare == IF kind[up] = "ctrl" /\ without[up] = <<>> THEN Drop(without, up) ELSE without
    IN  IF bare[run] = <<>> THEN Drop(bare, run) ELSE bare

-----------------------------------------------------------------------------
\* The commands.

\* New nodes of these kinds come after those there are.
Makes(new) ==
    /\ kind' = kind \o new
    /\ shape' = shape \o [i \in DOMAIN new |-> "full"]
    /\ id' = id \o [i \in DOMAIN new |-> 0]

Records(op, n, p, pos) ==
    /\ count' = count + 1
    /\ last' = [op |-> op, node |-> n, into |-> p, pos |-> pos]

New == Len(kids) + 1

\* The library appends what it makes; another position is a second step.
InsertMade(t, p, k, pos) ==
    IF pos.mode = "append"
    THEN [t EXCEPT ![p] = Append(@, New)]
    ELSE InsertDirect(t, p, Siblings(kids, p, k), Insertion(Siblings(kids, p, k), pos), New)

AddParagraph(p, pos) ==
    /\ kind[p] = "section"
    /\ Makes(<<"paragraph", "run", "text">>)
    /\ kids' = InsertMade(kids \o <<<<New + 1>>, <<New + 2>>, <<>>>>, p, "paragraph", pos)
    /\ addr' = addr \o <<0, 0, 0>>
    /\ UNCHANGED cached

AddRun(p, pos) ==
    /\ kind[p] = "paragraph"
    /\ Makes(<<"run", "text">>)
    /\ kids' = InsertMade(kids \o <<<<New + 1>>, <<>>>>, p, "run", pos)
    /\ addr' = addr \o <<0, 0>>
    /\ cached' = cached \ {p}

\* A table gets a run of its own wherever it goes; what the library does to the
\* lines of a paragraph it appends one to is not known here.
AddTable(p, pos) ==
    LET s == Siblings(kids, p, "table")
    IN  /\ kind[p] = "paragraph"
        /\ Makes(<<"table", "row", "run">>)
        /\ kids' = InsertInline(kids \o <<<<New + 1>>, <<>>>>, p, s, Insertion(s, pos), New, "table")
        /\ addr' = addr \o <<0, 1, 0>>
        /\ \/ cached' = cached \ {p}
           \/ pos.mode = "append" /\ cached' = cached

AddRow(p, pos) ==
    LET s == Siblings(kids, p, "row")
    IN  /\ kind[p] = "table"
        /\ Makes(<<"row">>)
        /\ kids' = InsertDirect(Append(kids, <<>>), p, s, Insertion(s, pos), New)
        /\ addr' = Renumber(kids', Append(addr, 0), {p})
        /\ UNCHANGED cached

AddNode(k, p, pos) ==
    /\ \/ k = "paragraph" /\ AddParagraph(p, pos)
       \/ k = "run" /\ AddRun(p, pos)
       \/ k = "table" /\ AddTable(p, pos)
       \/ k = "row" /\ AddRow(p, pos)
    /\ Records("add", New, p, pos)

\* Bug: the picture leaves and the cache stays.
RemoveKeepsLines(n) ==
    /\ kind[n] \in Inline \cup {"run"}
    /\ kids' = IF kind[n] \in {"run", "picture"} THEN Prune(kids, n) ELSE Cleared(DetachInline(kids, n), n)
    /\ cached' = IF kind[n] = "picture" THEN cached ELSE cached \ {Holder(kids, n)}
    /\ UNCHANGED addr

\* A picture leaves its run as it is.
RemoveInline(n) ==
    /\ kind[n] \in Inline \cup {"run"}
    /\ kids' = IF kind[n] \in {"run", "picture"} THEN Prune(kids, n) ELSE Cleared(DetachInline(kids, n), n)
    /\ cached' = cached \ {Holder(kids, n)}
    /\ UNCHANGED addr

\* The last paragraph of its parent is the library's to refuse.
RemoveParagraph(n) ==
    /\ kind[n] = "paragraph"
    /\ Len(Siblings(kids, Up(kids, n), "paragraph")) > 1
    /\ kids' = Prune(kids, n)
    /\ UNCHANGED <<addr, cached>>

RemoveRow(n) ==
    LET table == Up(kids, n)
    IN  /\ kind[n] = "row"
        /\ Len(kids[table]) > 1
        /\ ~Merged(kids, table)
        /\ kids' = Prune(kids, n)
        /\ addr' = Renumber(kids', addr, {table})
        /\ UNCHANGED cached

RemoveNode(n) ==
    /\ RemoveInline(n) \/ RemoveParagraph(n) \/ RemoveRow(n)
    /\ Records("remove", n, 0, At("append", 0))
    /\ UNCHANGED <<kind, id, shape>>

\* The checks of _move and _detach: runs and notes cannot be moved, only a
\* paragraph of the section can be taken out of it.
Movable(n, p) ==
    /\ kind[n] \in {"paragraph", "row", "table", "picture"}
    /\ p \notin ToSet(Below(kids, n))
    /\ kind[n] = "paragraph" => kind[Up(kids, n)] = "section"
    /\ kind[n] = "row" => ~Merged(kids, Up(kids, n))

\* Bug: only the rows of the destination are numbered.
MoveDirectHalf(n, p, pos) ==
    LET s == Siblings(kids, p, kind[n])
    IN  /\ kind[n] \in Direct
        /\ kids' = InsertDirect(Drop(kids, n), p, RemoveFirst(s, n), Landing(s, n, pos), n)
        /\ addr' = IF kind[n] = "row" THEN Renumber(kids', addr, {p}) ELSE addr
        /\ UNCHANGED <<kind, id, shape, cached>>

MoveDirect(n, p, pos) ==
    LET s == Siblings(kids, p, kind[n])
    IN  /\ kind[n] \in Direct
        /\ kids' = InsertDirect(Drop(kids, n), p, RemoveFirst(s, n), Landing(s, n, pos), n)
        /\ addr' = IF kind[n] = "row" THEN Renumber(kids', addr, {Up(kids, n), p}) ELSE addr
        /\ UNCHANGED <<kind, id, shape, cached>>

MoveInline(n, p, pos) ==
    LET k == kind[n]
        t == DetachInline(kids, n)
    IN  /\ k \in Inline
        /\ Makes(<<"run">>)
        /\ kids' = InsertInline(t, p, Siblings(t, p, k), Landing(Siblings(kids, p, k), n, pos), n, k)
        /\ addr' = Append(addr, 0)
        /\ cached' = cached \ {Holder(kids, n), p}

MoveNode(n, p, pos) ==
    /\ Movable(n, p)
    /\ pos.mode = "index" /\ Contains(Siblings(kids, p, kind[n]), n) => pos.at <= Len(Siblings(kids, p, kind[n]))
    /\ MoveDirect(n, p, pos) \/ MoveInline(n, p, pos)
    /\ Records("move", n, p, pos)

Highest == LET ids == {id[m] : m \in InTree(kids)} IN CHOOSE i \in ids : \A j \in ids : j <= i

\* Bug: only the copied node itself gets a new identity.
FreshTop(src) ==
    [i \in DOMAIN src |-> IF i = 1 /\ id[src[1]] > 0 THEN Highest + 1 ELSE id[src[i]]]

\* _refresh_copy_identities: in document order, above the highest there is, but
\* for what has no identity; so the inside of a note is copied as it is.
Fresh(src) ==
    LET top == Highest
    IN  [i \in DOMAIN src |->
            IF id[src[i]] = 0 THEN 0 ELSE top + Cardinality({j \in 1..i : id[src[j]] > 0})]

Of(f, src) == [i \in DOMAIN src |-> f[src[i]]]

\* copy.deepcopy: the nodes of src come after those there are.
Clone(src) ==
    [i \in DOMAIN src |-> [j \in DOMAIN kids[src[i]] |-> Len(kids) + IndexOf(src, kids[src[i]][j])]]

CopyNode(n, p, pos) ==
    LET k == kind[n]
        s == Siblings(kids, p, k)
        src == Below(kids, n)
        t == kids \o Clone(src)
        wrap == IF k \in Inline THEN Wrapping(k) ELSE <<>>
        none == [i \in DOMAIN wrap |-> 0]
    IN  /\ k = "row" => ~Merged(kids, Up(kids, n)) /\ ~Merged(kids, p)
        /\ kind' = kind \o Of(kind, src) \o wrap
        /\ id' = id \o Fresh(src) \o none
        /\ shape' = shape \o Of(shape, src) \o [i \in DOMAIN wrap |-> "full"]
        /\ kids' = IF k \in Inline THEN InsertInline(t, p, s, Insertion(s, pos), New, k)
                                   ELSE InsertDirect(t, p, s, Insertion(s, pos), New)
        /\ addr' = LET a == addr \o Of(addr, src) \o none
                   IN  IF k = "row" THEN Renumber(kids', a, {p}) ELSE a
        /\ cached' = {m \in cached : k \in Inline \cup {"run"} => m # p}
                     \cup {Len(kids) + i : i \in {j \in DOMAIN src : src[j] \in cached}}
        /\ Records("copy", New, p, pos)

Init ==
    \E d \in Documents :
        /\ kids = d.kids
        /\ kind = d.kind
        /\ id = [n \in Nodes |->
                    IF /\ kind[n] \in {"paragraph", "table", "picture", "note"}
                       /\ \A m \in Nodes : kind[m] = "note" => n \notin Inside(kids, m)
                    THEN n ELSE 0]
        /\ shape = [n \in Nodes |-> IF n \in d.spans THEN "spans" ELSE IF n \in d.covered THEN "covered" ELSE "full"]
        /\ addr = [n \in Nodes |-> IF kind[n] = "row" THEN IndexOf(kids[Up(kids, n)], n) ELSE 0]
        /\ cached = {n \in Nodes : kind[n] = "paragraph"}
        /\ count = 0
        /\ last = [op |-> "none", node |-> 0, into |-> 0, pos |-> At("append", 0)]

\* The nodes an agent can name: nothing inside a note or an unknown element.
Projected ==
    LET hiding == {m \in InTree(kids) : kind[m] \in {"note", "other"}}
    IN  InTree(kids) \ UNION {Inside(kids, m) : m \in hiding}

\* Siblings of the node's kind in the parent its kind belongs to.
Next ==
    /\ count < MaxCommands
    /\ \/ \E k \in {"paragraph", "run", "table", "row"}, p \in Projected :
             /\ kind[p] = Home(k)
             /\ \E pos \in Positions(Siblings(kids, p, k)) : AddNode(k, p, pos)
       \/ \E n \in Projected : RemoveNode(n)
       \/ \E n, p \in Projected :
             /\ kind[n] \in Addressable
             /\ kind[p] = Home(kind[n])
             /\ \E pos \in Positions(Siblings(kids, p, kind[n])) : MoveNode(n, p, pos) \/ CopyNode(n, p, pos)

Spec == Init /\ [][Next]_vars

-----------------------------------------------------------------------------
Each(k) == {n \in InTree(kids) : kind[n] = k}
Line(p) == Content(kids, p)
Children(p) == IF kind[p] = "paragraph" THEN kids[p] \o Line(p) ELSE kids[p]

\* A command moves, loses and reorders nothing but the node it is about and what
\* is in it; a run may go whose content is all still there.
NothingElseMoves ==
    [][LET n == last'.node
           gone == IF last'.op = "remove" THEN ToSet(Below(kids, n)) ELSE {n}
           there == InTree(kids')
           Others(s) == SelectSeq(s, LAMBDA m : m \in Nodes \ gone /\ (kind[m] = "run" => m \in there))
       IN  \A p \in InTree(kids) :
               kind[p] \in {"section", "paragraph", "table", "row"} /\ (last'.op = "remove" => p \notin gone)
                   => p \in there /\ Others(Children(p)') = Others(Children(p))]_vars

Landed ==
    LET n == last.node
        s == Siblings(kids, last.into, kind[n])
        i == IndexOf(s, n)
        a == last.pos.at
    IN  CASE last.pos.mode = "append"  -> i = Len(s)
          [] last.pos.mode = "prepend" -> i = 1
          [] last.pos.mode = "index"   -> i = a
          [] last.pos.mode = "before"  -> n = a \/ (i < Len(s) /\ s[i + 1] = a)
          [] last.pos.mode = "after"   -> n = a \/ (i > 1 /\ s[i - 1] = a)

\* Two objects of the kind, other than n, that a run of their own cannot part.
Crowded(p, k, n) ==
    \E a, b \in ToSet(Siblings(kids, p, k)) \ {n} : k \in Inline /\ a # b /\ RunOf(kids, a) = RunOf(kids, b)

\* What is added, moved or copied ends at the position asked for among the
\* siblings of its kind, whether or not it was one of them before; objects that
\* share a run are excused, for the new run goes before or behind both.
LandsWhereAsked ==
    [][last'.op # "remove" => Landed' \/ Crowded(last'.into, kind'[last'.node], last'.node)]_vars

\* A paragraph whose content a command has changed has lost its layout cache, but
\* for a table that the library appends.
LinesMatch ==
    [][\A p \in Each("paragraph") \cap cached' \cap InTree(kids') :
          \/ Line(p)' = Line(p)
          \/ last'.op = "add" /\ last'.into = p /\ kind'[last'.node] = "table" /\ last'.pos.mode = "append"]_vars

Numbered == \A b \in Each("table") : \A i \in DOMAIN kids[b] : addr[kids[b][i]] = i
Whole(b) ==
    \A i \in DOMAIN kids[b] :
        /\ shape[kids[b][i]] = "spans" => i < Len(kids[b]) /\ shape[kids[b][i + 1]] = "covered"
        /\ shape[kids[b][i]] = "covered" => i > 1 /\ shape[kids[b][i - 1]] = "spans"

\* Every command leaves the rows of all tables numbered in their order, and the
\* merged ones together, but for a row that is added or moved in between.
TablesKept ==
    [][/\ Numbered'
       /\ \A b \in Each("table") \cap InTree(kids') :
              Whole(b) => Whole(b)' \/ (last'.op \in {"add", "move"} /\ last'.into = b)]_vars

\* Whatever is copied, no identity is there twice outside of notes, and no command
\* leaves a note outside a control or a control empty, which Hancom drops or crashes
\* on.  Inside a note, where _walk_refresh_identities refreshes nothing, a copy has
\* the identities of the original.
SoundDocument ==
    /\ \A m, n \in InTree(kids) : id[m] = id[n] /\ kind[m] = kind[n] /\ id[m] > 0 => m = n
    /\ \A n \in Each("note") : kind[Up(kids, n)] = "ctrl"
    /\ \A c \in Each("ctrl") : kids[c] # <<>>
=============================================================================
