----------------------------- MODULE TreeDocument -----------------------------
(***************************************************************************)
(* The card tree as a document: the attributes of its nodes, the columns   *)
(* they are kept in, and the XML text that it is written to and read from  *)
(* (dyntree_model.c), as scripts use them (lua_nodes.c, lua_ui.c).         *)
(*                                                                         *)
(* The nodes are listed in document order, each with its depth: the links  *)
(* between them are the matter of CardTree.  A string is the sequence of   *)
(* its characters; the kind of a value is the character in front of its    *)
(* first colon.  Of XML there are the events that the parser of GLib makes *)
(* of it: elements that open and close, and the texts of attributes.       *)
(* A text between two tags is an event also when it is empty.              *)
(***************************************************************************)
EXTENDS Integers, SequencesExt

CONSTANTS
  Names,        \* names of attributes
  Characters,
  Hidden,       \* names that begin with a minus sign
  Quoted,       \* those that end the quotes they are written in
  FirstColumns, \* the columns there are from the start; the first: classname
  NodeSlots,    \* how many attributes a new node has room for: 8
  ColumnSlots,  \* how many columns there is room for at first: 16
  Texts,        \* texts that a script gives
  Bytestrings,  \* byte strings, in the format that keeps their width
  Item,         \* the text "item"
  OldFiles,     \* files that other versions of the program left
  None,
  MaxNodes,     \* bound on the nodes that single calls add, and that texts are added to
  MaxCalls      \* bound on the calls of the scripts

ASSUME DocumentAssumption ==
  /\ Hidden \subseteq Names /\ Quoted \subseteq Names
  /\ FirstColumns \in Seq(Names) /\ FirstColumns # <<>> /\ IsInjective(FirstColumns)
  /\ NodeSlots \in Nat /\ NodeSlots >= Len(FirstColumns)
  /\ ColumnSlots \in Nat /\ ColumnSlots >= NodeSlots
  /\ {"8", "4", "1", "t", ":"} \subseteq Characters
  /\ Texts \cup Bytestrings \cup {Item} \subseteq Seq(Characters)
  /\ \A b \in Bytestrings : Len(b) >= 2 /\ b[1] \in {"8", "4", "1"} /\ b[2] = ":"
  /\ None \notin Seq(Characters)

VARIABLES
  tree,     \* the columns, the room for columns, and the nodes
  file,     \* the events of the file of the card view
  saved,    \* what was saved to it (auxiliary)
  text,     \* the events of the text that the script holds
  source,   \* the nodes that text was made from (auxiliary)
  calls     \* the calls made so far (auxiliary)

vars == <<tree, file, saved, text, source, calls>>

-------------------------------------------------------------------------------
(***************************************************************************)
(* Columns and nodes.                                                      *)
(***************************************************************************)
Tree(columns, room, nodes) == [columns |-> columns, room |-> room, nodes |-> nodes]

Column(t, name) == SelectInSeq(t.columns, LAMBDA c : c = name)

\* Mistake: there is always room for one more column.
RegisterInPlace(t, name) ==
  IF Column(t, name) # 0 THEN t ELSE [t EXCEPT !.columns = Append(@, name)]

Register(t, name) ==
  IF Column(t, name) # 0 THEN t
  ELSE [t EXCEPT !.columns = Append(@, name),
                 !.room = IF Len(t.columns) = @ THEN 2 * @ ELSE @]

NewNode(depth) == [depth |-> depth, values |-> [c \in 1 .. NodeSlots |-> None]]

\* The last node before the first of some nodes, or of all.
LastBefore(t, nodes) == IF nodes = {} THEN Len(t.nodes) ELSE Min(nodes) - 1

\* The last node of those below p, or p; 0 is the invisible root.
EndOf(t, p) ==
  LastBefore(t, {n \in p + 1 .. Len(t.nodes) : p # 0 /\ t.nodes[n].depth <= t.nodes[p].depth})

DepthOf(t, p) == IF p = 0 THEN 0 ELSE t.nodes[p].depth

AppendNode(t, p) ==
  [t EXCEPT !.nodes = InsertAt(@, EndOf(t, p) + 1, NewNode(DepthOf(t, p) + 1))]

Parent(t, n) == SelectLastInSubSeq(t.nodes, 1, n, LAMBDA m : m.depth = t.nodes[n].depth - 1)

\* dyntree_model_iter_attribute_set(): a node that has no room for the column
\* gets room for as many as there may be.
SetValue(t, n, column, value) ==
  LET room == IF column > Len(t.nodes[n].values) THEN t.room ELSE Len(t.nodes[n].values)
      old(c) == IF c <= Len(t.nodes[n].values) THEN t.nodes[n].values[c] ELSE None
  IN  [t EXCEPT !.nodes[n].values = [c \in 1 .. room |-> IF c = column THEN value ELSE old(c)]]

SetByName(t, n, name, value) ==
  LET r == Register(t, name) IN SetValue(r, n, Column(r, name), value)

-------------------------------------------------------------------------------
(***************************************************************************)
(* What scripts read: single attributes, all those of a node, and the      *)
(* first node that has certain attributes.                                 *)
(***************************************************************************)
\* Mistake: the last value a node has room for stands for those behind it.
LastValueAt(t, n, column) ==
  LET values == t.nodes[n].values
  IN  IF column <= Len(values) THEN values[column] ELSE Last(values)

\* dyntree_model_iter_attribute_get(): a node may have room for less columns
\* than there are by now.
ValueAt(t, n, column) ==
  IF column <= Len(t.nodes[n].values) THEN t.nodes[n].values[column] ELSE None

ValueOf(t, n, name) ==
  LET column == Column(t, name)
  IN  IF column = 0 THEN None ELSE ValueAt(t, n, column)

\* The value that Lua gets: a string, a byte string of some width, or nil.
Pushed(value) ==
  IF value = None THEN [is |-> "nil"]
  ELSE IF value[1] = "t" THEN [is |-> "string", text |-> SubSeq(value, 3, Len(value))]
  ELSE [is |-> "bytes", width |-> value[1], digits |-> SubSeq(value, 3, Len(value))]

GetAttribute(t, n, name) == Pushed(ValueOf(t, n, name))

\* nodes.attributes(): in the order of the columns, those that have a value.
LoopOverAttributes(t, n) ==
  LET given[c \in 0 .. Len(t.columns)] ==
        IF c = 0 THEN <<>>
        ELSE IF ValueAt(t, n, c) = None THEN given[c - 1]
        ELSE Append(given[c - 1], [name |-> t.columns[c], value |-> Pushed(ValueAt(t, n, c))])
  IN  given[Len(t.columns)]

\* attrs are the names and the values of the table that a script gives; the
\* formatted values are compared, so that no text is equal to a byte string.
Matches(t, n, attrs) ==
  attrs # {} /\ \A a \in attrs : ValueAt(t, n, Column(t, a.name)) = a.value

\* No node matches a name that no column has.
HasColumns(t, attrs) == \A a \in attrs : Column(t, a.name) # 0

\* The first match among start and the nodes below it; 0 if there is none.
FirstMatch(t, start, attrs) ==
  SelectInSubSeq([n \in DOMAIN t.nodes |-> Matches(t, n, attrs)], start, EndOf(t, start),
                 LAMBDA matches : matches)

\* nodes.find_first(): for the root the search begins with, and stays below, the
\* first node of the top level.
FindFirst(t, p, attrs) ==
  IF t.nodes = <<>> \/ attrs = {} \/ ~HasColumns(t, attrs) THEN 0
  ELSE FirstMatch(t, IF p = 0 THEN 1 ELSE p, attrs)

-------------------------------------------------------------------------------
(***************************************************************************)
(* dyntree_model_iter_to_xml(): the node n, its siblings after it, and all *)
(* that is below them; without a node, the whole tree.                     *)
(***************************************************************************)
Open(name) == [on |-> "open", name |-> name]
Close == [on |-> "close"]
Text(s) == [on |-> "text", text |-> s]
Malformed == [on |-> "malformed"]

Events ==
  [on : {"open"}, name : {"cardpeek", "version", "node"}]
    \cup [on : {"open"}, name : {"attr"}, column : Names, bytes : BOOLEAN]
    \cup [on : {"text"}, text : Seq(Characters)] \cup {Close, Malformed}

ASSUME FilesAssumption == OldFiles \subseteq Seq(Events)

\* The text of the version is a number above 0, such as 0.8.4.
Prolog == <<Open("cardpeek"), Open("version"), Text(<<"8">>), Close>>

AttrEvents(name, value) ==
  LET bytes == value[1] \in {"8", "4", "2"}
      element == [on |-> "open", name |-> "attr", column |-> name, bytes |-> bytes]
  IN  IF value = None \/ name \in Hidden THEN <<>>
      ELSE IF name \in Quoted THEN <<Malformed>>
      ELSE <<element, Text(IF bytes THEN value ELSE SubSeq(value, 3, Len(value))), Close>>

\* Attributes that a node has no room for it does not have.
Attributes(t, n) ==
  LET count == IF Len(t.columns) < Len(t.nodes[n].values)
                 THEN Len(t.columns) ELSE Len(t.nodes[n].values)
  IN  FlattenSeq([c \in 1 .. count |-> AttrEvents(t.columns[c], t.nodes[n].values[c])])

\* The last of the siblings that follow n, and of all that is below them.
LastFrom(t, n) ==
  LastBefore(t, {m \in n + 1 .. Len(t.nodes) : t.nodes[m].depth < t.nodes[n].depth})

\* The nodes that are written for a node n.
Written(t, n) ==
  IF n = 0 THEN t.nodes ELSE SubSeq(t.nodes, n, LastFrom(t, n))

NodeEvents(t, first, last, n) ==
  LET following == IF n = last THEN t.nodes[first].depth ELSE t.nodes[n + 1].depth
      closing == t.nodes[n].depth - following + 1
  IN  <<Open("node")>> \o Attributes(t, n) \o [i \in 1 .. closing |-> Close]

Xml(t, n) ==
  LET first == IF n = 0 THEN 1 ELSE n
      last == first + Len(Written(t, n)) - 1
  IN  Prolog
        \o FlattenSeq([i \in 1 .. last - first + 1 |-> NodeEvents(t, first, last, first + i - 1)])
        \o <<Close>>

-------------------------------------------------------------------------------
(***************************************************************************)
(* dyntree_model_iter_from_xml(): what the callbacks of the parser do.     *)
(* After an error there are no more callbacks, and the nodes that were     *)
(* appended stay.                                                          *)
(***************************************************************************)
\* parent is the node to append to, 0 for the root; the version is 0, or not,
\* until the element version is read: nobody sets it.
Context(t, parent, version) ==
  [tree |-> t, ok |-> TRUE, state |-> "file", node |-> parent, isroot |-> parent = 0,
   column |-> 0, bytes |-> FALSE, version |-> version]

Error(c) == [c EXCEPT !.ok = FALSE]

OpensNode(c) ==
  LET parent == IF c.state = "root" /\ c.isroot THEN 0 ELSE c.node
      grown == AppendNode(c.tree, parent)
  IN  IF c.state \notin {"root", "node"} THEN Error(c)
      ELSE [c EXCEPT !.tree = grown, !.node = EndOf(c.tree, parent) + 1, !.state = "node",
                     !.isroot = IF c.state = "root" THEN FALSE ELSE @]

OpensAttr(c, e) ==
  LET r == Register(c.tree, e.column)
  IN  IF c.state # "node" THEN Error(c)
      ELSE [c EXCEPT !.tree = r, !.column = Column(r, e.column), !.bytes = e.bytes,
                     !.state = "attr"]

OpensElement(c, e) ==
  IF e.name = "node" THEN OpensNode(c)
  ELSE IF e.name = "attr" THEN OpensAttr(c, e)
  ELSE IF e.name = "cardpeek"
         THEN IF c.state = "file" THEN [c EXCEPT !.state = "root"] ELSE Error(c)
  ELSE IF c.state = "root" THEN [c EXCEPT !.state = "version"] ELSE Error(c)

\* Mistake: a node that closes leads to the top of the file.
ClosesToRoot(c) ==
  CASE c.state = "node" -> [c EXCEPT !.state = "root", !.isroot = TRUE]
    [] c.state = "attr" -> [c EXCEPT !.state = "node"]
    [] c.state = "root" -> [c EXCEPT !.state = "file"]
    [] c.state = "version" -> [c EXCEPT !.state = "root"]
    [] c.state = "file" -> c

Closes(c) ==
  CASE c.state = "node" ->
         LET up == Parent(c.tree, c.node)
         IN  IF up # 0 THEN [c EXCEPT !.node = up]
             ELSE [c EXCEPT !.state = "root", !.isroot = TRUE]
    [] c.state = "attr" -> [c EXCEPT !.state = "node"]
    [] c.state = "root" -> [c EXCEPT !.state = "file"]
    [] c.state = "version" -> [c EXCEPT !.state = "root"]
    [] c.state = "file" -> c

\* A text of the form of a byte string, which may be of the width 8 or 4.
LooksCoded(s) == Len(s) >= 2 /\ s[2] = ":"
IsCoded(s) == LooksCoded(s) /\ s[1] \in {"8", "4"}

\* Mistake: what looks like a byte string is taken for one.
AttrTextByLook(c, s) ==
  IF c.bytes \/ LooksCoded(s)
    THEN IF IsCoded(s) THEN SetValue(c.tree, c.node, c.column, s) ELSE c.tree
    ELSE SetValue(c.tree, c.node, c.column, <<"t", ":">> \o s)

AttrText(c, s) ==
  IF c.bytes \/ (c.version = 0 /\ LooksCoded(s))
    THEN IF IsCoded(s) THEN SetValue(c.tree, c.node, c.column, s) ELSE c.tree
    ELSE SetValue(c.tree, c.node, c.column, <<"t", ":">> \o s)

\* Between elements there is only space, which is no event here.
Reads(c, s) ==
  CASE c.state = "attr" -> [c EXCEPT !.tree = AttrText(c, s)]
    [] c.state = "version" -> [c EXCEPT !.version = 1]
    [] OTHER -> Error(c)

Step(c, e) ==
  IF ~c.ok THEN c
  ELSE CASE e.on = "open" -> OpensElement(c, e)
         [] e.on = "close" -> Closes(c)
         [] e.on = "text" -> Reads(c, e.text)
         [] e.on = "malformed" -> Error(c)

Parsed(t, parent, version, events) ==
  LET after[i \in 0 .. Len(events)] ==
        IF i = 0 THEN Context(t, parent, version) ELSE Step(after[i - 1], events[i])
  IN  after[Len(events)].tree

-------------------------------------------------------------------------------
(***************************************************************************)
(* The calls of a script, and the files.                                   *)
(***************************************************************************)
Cleared == [tree EXCEPT !.nodes = <<>>]

Init ==
  /\ tree = Tree(FirstColumns, ColumnSlots, <<>>)
  /\ file = <<>> /\ saved = None
  /\ text = <<>> /\ source = None
  /\ calls = 0

Values == {<<"t", ":">> \o s : s \in Texts} \cup Bytestrings
Places == 0 .. Len(tree.nodes)

\* nodes.append() with a class, with none, or with a table of attributes, which
\* may be empty or hold something else: then the call fails, but not the node.
Appends(p) ==
  LET t == AppendNode(tree, p)
      n == EndOf(tree, p) + 1
  IN  /\ Len(tree.nodes) < MaxNodes
      /\ \/ tree' = SetValue(t, n, 1, <<"t", ":">> \o Item)
         \/ tree' = t
         \/ \E name \in Names, v \in Values : tree' = SetByName(t, n, name, v)
      /\ UNCHANGED <<file, saved, text, source>>

Sets(n, name, value) ==
  /\ tree' = SetByName(tree, n, name, value)
  /\ UNCHANGED <<file, saved, text, source>>

Removes(p) ==
  /\ tree' = IF p = 0 THEN Cleared
             ELSE [tree EXCEPT !.nodes =
                     SubSeq(@, 1, p - 1) \o SubSeq(@, EndOf(tree, p) + 1, Len(@))]
  /\ UNCHANGED <<file, saved, text, source>>

\* ui.save_view(): a write that stops early counts as one.
Saves ==
  /\ \E events \in Prefixes(Xml(tree, 0)) : file' = events
  /\ saved' = tree
  /\ UNCHANGED <<tree, text, source>>

Receives(f) ==
  /\ file' = f /\ saved' = None
  /\ UNCHANGED <<tree, text, source>>

\* ui.load_view() clears the tree first.
Loads ==
  /\ \E version \in 0 .. 1 : tree' = Parsed(Cleared, 0, version, file)
  /\ UNCHANGED <<file, saved, text, source>>

\* nodes.to_xml()
Exports(p) ==
  /\ text' = Xml(tree, p)
  /\ source' = [tree EXCEPT !.nodes = Written(tree, p)]
  /\ UNCHANGED <<tree, file, saved>>

\* nodes.append_xml()
Imports(p) ==
  /\ source # None
  /\ Len(tree.nodes) <= MaxNodes
  /\ \E version \in 0 .. 1 : tree' = Parsed(tree, p, version, text)
  /\ UNCHANGED <<file, saved, text, source>>

Call ==
  \/ \E p \in Places : Appends(p) \/ Removes(p) \/ Exports(p) \/ Imports(p)
  \/ \E n \in Places \ {0}, name \in Names, v \in Values \cup {None} : Sets(n, name, v)
  \/ Saves \/ Loads
  \/ \E f \in OldFiles : Receives(f)

Next == calls < MaxCalls /\ calls' = calls + 1 /\ Call

Spec == Init /\ [][Next]_vars

-------------------------------------------------------------------------------
Nodes == [depth : Nat, values : Seq(Seq(Characters) \cup {None})]
Trees == [columns : Seq(Names), room : Nat, nodes : Seq(Nodes)]

\* What bytestring_to_format("%S") and internal_bytes_or_string_dup() write.
IsFormatted(v) ==
  v \in Seq(Characters) /\ Len(v) >= 2 /\ v[1] \in {"8", "4", "1", "t"} /\ v[2] = ":"

IsTree(t) ==
  /\ t \in Trees
  /\ IsInjective(t.columns) /\ Len(t.columns) \in Len(FirstColumns) .. t.room
  /\ NodeSlots <= t.room
  /\ \A n \in DOMAIN t.nodes :
       /\ t.nodes[n].depth \in 1 .. IF n = 1 THEN 1 ELSE t.nodes[n - 1].depth + 1
       /\ Len(t.nodes[n].values) \in {NodeSlots} \cup (Len(FirstColumns) .. t.room)
       /\ \A c \in DOMAIN t.nodes[n].values :
            t.nodes[n].values[c] # None => c <= Len(t.columns) /\ IsFormatted(t.nodes[n].values[c])

\* The nodes are a tree, no column is beyond the room there is for columns, and
\* no value beyond the columns: no index leads out of the two arrays.  Every value
\* has its kind in front of a colon.
DocumentTypeOK == IsTree(tree) /\ {file, text} \subseteq Seq(Events)

(***************************************************************************)
(* What is kept of a value: texts, the empty one too, and byte strings of  *)
(* the widths 8 and 4; of the bits of one of width 1 a text of its digits. *)
(***************************************************************************)
KeptValue(v) ==
  IF v[1] \in {"8", "4"} THEN v ELSE <<"t", ":">> \o SubSeq(v, 3, Len(v))

AttrsOf(t, n) ==
  {<<t.columns[c], t.nodes[n].values[c]>> :
     c \in {c \in DOMAIN t.nodes[n].values : t.nodes[n].values[c] # None}}

View(t) ==
  [n \in DOMAIN t.nodes |-> [depth |-> t.nodes[n].depth, attrs |-> AttrsOf(t, n)]]

\* The nodes of t as a file keeps them, below a node of some depth.
Kept(t, below) ==
  [n \in DOMAIN t.nodes |->
     [depth |-> below + t.nodes[n].depth - t.nodes[1].depth + 1,
      attrs |-> {<<a[1], KeptValue(a[2])>> : a \in {a \in AttrsOf(t, n) : a[1] \notin Hidden}}]]

HasQuoted(t) == \E n \in DOMAIN t.nodes : \E a \in AttrsOf(t, n) : a[1] \in Quoted

\* s is the beginning of u, its last node perhaps without some attributes.
BeginningOf(s, u) ==
  /\ Len(s) <= Len(u)
  /\ \A n \in 1 .. Len(s) - 1 : s[n] = u[n]
  /\ s # <<>> => Last(s).depth = u[Len(s)].depth /\ Last(s).attrs \subseteq u[Len(s)].attrs

IsCopy(s, t, below, events, whole) ==
  /\ BeginningOf(s, Kept(t, below))
  /\ events = whole /\ ~HasQuoted(t) => s = Kept(t, below)

\* A view that was saved is loaded as it was, or as much of it as the file has,
\* in spite of texts that look like byte strings, of the columns that were
\* registered in the meantime, and of what the parser found uninitialised.
LoadRestores ==
  [][Loads /\ saved # None => IsCopy(View(tree'), saved, 0, file, Xml(saved, 0))]_vars

\* What is appended from a text goes below the node it is appended to, behind
\* all that is there; it is a copy of the node the text was made from and of its
\* siblings after it; and no other node changes.
ImportOnlyAdds ==
  [][\A p \in Places : Imports(p) =>
       LET added == Len(tree'.nodes) - Len(tree.nodes)
           at == EndOf(tree, p)
           old == View(tree)
           new == View(tree')
       IN  /\ SubSeq(new, 1, at) \o SubSeq(new, at + added + 1, Len(new)) = old
           /\ IsCopy(SubSeq(new, at + 1, at + added), source, DepthOf(tree, p),
                     text, Xml(source, 0))]_vars

\* After an attribute of a node was set to a value, scripts read that value, and
\* of all other attributes of this node and of the others what they read before.
\* The loop over the attributes of the node gives each that has a value once, and
\* the search finds the node, or one that comes before it and reads the same.
ReadsBack(n, name, value) ==
  /\ \A m \in Places \ {0}, x \in Names :
       GetAttribute(tree', m, x) =
         IF m = n /\ x = name THEN Pushed(value) ELSE GetAttribute(tree, m, x)
  /\ LET loop == LoopOverAttributes(tree', n)
     IN  /\ IsInjective([i \in DOMAIN loop |-> loop[i].name])
         /\ ToSet(loop) = {[name |-> x, value |-> GetAttribute(tree', n, x)] :
                             x \in {x \in Names : ValueOf(tree', n, x) # None}}
  /\ value # None =>
       \A p \in 1 .. n :
         n <= EndOf(tree', p) =>
           LET found == FindFirst(tree', p, {[name |-> name, value |-> value]})
           IN  /\ found \in p .. n
               /\ \A m \in p .. n : GetAttribute(tree', m, name) = Pushed(value) => found <= m

\* What a script sets it reads back, as the string or the byte string it was and
\* not as another, and nothing else that it reads changes, though columns were
\* registered and arrays grew.
ScriptsReadBack ==
  [][Len(tree'.nodes) = Len(tree.nodes) /\ UNCHANGED <<file, saved, text, source>> =>
       \A n \in Places \ {0}, name \in Names, v \in Values \cup {None} :
         Sets(n, name, v) => ReadsBack(n, name, v)]_vars
===============================================================================
