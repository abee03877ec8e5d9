---------------------------- MODULE TrainerProofs ----------------------------
(***************************************************************************)
(* Theorems about the trainer, for any documents, layouts, guns and games, *)
(* any play of the game and any hand on the keyboard.                      *)
(***************************************************************************)
EXTENDS Trainer, SequenceTheorems, FiniteSetTheorems, WellFoundedInduction, TLAPS

Stages == {"prolog", "body", "epilog", "entries", "parsed", "refused"}
Locks  == {"none", "active", "stopped", "dead"}
Steady == {"ready", "test_health", "test_ammo", "test_height", "test_jump", "test_land",
            "test_restore", "line",
           "reading", "hotkey1", "hotkey2", "hotkey3", "key", "tick", "passed", "closed"}

\* The reader stands at a token of the document or at its end, inside an element while
\* it reads one.
TableTyped ==
    /\ doc \in Documents /\ at \in 1..Len(doc) + 1 /\ stage \in Stages
    /\ open \in Seq(Range(open)) /\ (stage = "body" => open # <<>>)
    /\ tries \in 0..MaxTries

KeysTyped ==
    /\ down \in [1..3 -> BOOLEAN] /\ prev \in [1..3 -> BOOLEAN]
    /\ presses \in [1..3 -> Nat] /\ fired \in [1..3 -> Nat]
    /\ presses[1] + presses[2] + presses[3] <= MaxPresses

\* A step to a steady phase starts from one, or from a resolution that succeeded.
AimIsKnown ==
    /\ phase \in Steady => Located(aim)
    /\ session \in {"none", "game", "simulated"} /\ plays \in 0..MaxPlays

Freezing == lock \in Locks /\ frozen \in BOOLEAN /\ FreezeFollowsTheToggle

-----------------------------------------------------------------------------
(* The reader *)

LEMMA IsASequence ==
    ASSUME NEW S, NEW s \in Seq(S)
    PROVE  s \in Seq(Range(s))
  BY SeqOfRange

LEMMA DocumentType == doc \in Documents => Len(doc) \in Nat
  BY TableAssumption, LenProperties

\* One more element is open.
LEMMA OpenGrows ==
    ASSUME NEW s, s \in Seq(Range(s)), NEW e
    PROVE  Append(s, e) \in Seq(Range(Append(s, e))) /\ Append(s, e) # <<>>
<1> DEFINE S == Range(s) \cup {e}
<1>1. s \in Seq(S)
  BY SeqMonotonic
<1>2. Append(s, e) \in Seq(S) /\ Append(s, e) # <<>>
  BY <1>1, AppendProperties
<1>3. QED
  BY <1>2, IsASequence

\* The innermost element is another.
LEMMA OpenChanges ==
    ASSUME NEW s, s \in Seq(Range(s)), s # <<>>, NEW e, NEW t,
           t = [s EXCEPT ![Len(s)] = e]
    PROVE  t \in Seq(Range(t)) /\ t # <<>>
<1> DEFINE S == Range(s) \cup {e}
<1>1. s \in Seq(S) /\ Len(s) \in 1..Len(s)
  BY SeqMonotonic, LenProperties, EmptySeq
<1>2. t \in Seq(S) /\ Len(t) = Len(s)
  BY <1>1, ExceptSeq
<1>3. Len(t) # 0
  BY <1>1, <1>2
<1>4. QED
  BY <1>2, <1>3, IsASequence, EmptySeq

\* An element that was finished goes to its parent, or is the root.
LEMMA FinishType ==
    ASSUME NEW e, NEW outer, outer \in Seq(Range(outer)), Finish(e, outer),
           stage \in Stages, stage = "body" => outer # <<>> \/ stage' = "epilog"
    PROVE  /\ open' \in Seq(Range(open')) /\ stage' \in Stages
           /\ stage' = "body" => open' # <<>>
<1>1. CASE outer = <<>>
  BY <1>1, IsASequence, EmptySeq DEF Finish, Stages
<1>2. CASE outer # <<>>
  <2> DEFINE e1 == [outer[Len(outer)] EXCEPT !.children = Append(@, e)]
  <2>1. open' = [outer EXCEPT ![Len(outer)] = e1] /\ stage' = stage
    BY <1>2 DEF Finish
  <2>2. QED
    BY <1>2, <2>1, OpenChanges
<1>3. QED
  BY <1>1, <1>2

LEMMA TokenTaken == TableTyped /\ Token => at' \in 1..Len(doc') + 1 /\ doc' \in Documents
  BY DocumentType DEF TableTyped, Token

LEMMA OpenedType ==
    TableTyped /\ ReadOpen => /\ open' \in Seq(Range(open')) /\ stage' \in Stages
                              /\ stage' = "body" => open' # <<>>
<1> SUFFICES ASSUME TableTyped, ReadOpen
             PROVE  /\ open' \in Seq(Range(open')) /\ stage' \in Stages
                    /\ stage' = "body" => open' # <<>>
  OBVIOUS
<1> DEFINE e == Element(doc[at].name, Attributes(doc[at].attrs))
<1>1. CASE Refuse
  BY <1>1 DEF Refuse, TableTyped, Stages
<1>2. CASE Finish(e, open)
  BY <1>2, FinishType DEF TableTyped
<1>3. CASE open' = Append(open, e) /\ stage' = "body"
  BY <1>3, OpenGrows DEF TableTyped, Stages
<1>4. QED
  BY <1>1, <1>2, <1>3 DEF ReadOpen

LEMMA ClosedType ==
    TableTyped /\ ReadClose => /\ open' \in Seq(Range(open')) /\ stage' \in Stages
                               /\ stage' = "body" => open' # <<>>
<1> SUFFICES ASSUME TableTyped, ReadClose
             PROVE  /\ open' \in Seq(Range(open')) /\ stage' \in Stages
                    /\ stage' = "body" => open' # <<>>
  OBVIOUS
<1>1. CASE Refuse
  BY <1>1 DEF Refuse, TableTyped, Stages
<1>2. CASE Finish(Inner, Front(open))
  <2>1. open # <<>> /\ open \in Seq(Range(open)) /\ stage \in Stages
    BY DEF ReadClose, TableTyped
  <2>2. Len(open) \in Nat \ {0}
    BY <2>1, EmptySeq
  <2>3. Front(open) \in Seq(Range(open))
    BY <2>1, <2>2, SubSeqProperties DEF Front
  <2>4. Front(open) \in Seq(Range(Front(open)))
    BY <2>3, IsASequence
  <2>5. Front(open) # <<>> \/ stage' = "epilog"
    BY <1>2 DEF Finish
  <2>6. QED
    BY <1>2, <2>1, <2>4, <2>5, FinishType
<1>3. QED
  BY <1>1, <1>2 DEF ReadClose

LEMMA ContentType ==
    TableTyped /\ ReadContent => /\ open' \in Seq(Range(open')) /\ stage' \in Stages
                                 /\ stage' = "body" => open' # <<>>
<1> SUFFICES ASSUME TableTyped, ReadContent
             PROVE  /\ open' \in Seq(Range(open')) /\ stage' \in Stages
                    /\ stage' = "body" => open' # <<>>
  OBVIOUS
<1> DEFINE text == IF doc[at].t = "text" THEN Resolved(doc[at].text) ELSE " "
           e    == [open[Len(open)] EXCEPT !.text = text]
<1>1. CASE Refuse
  BY <1>1 DEF Refuse, TableTyped, Stages
<1>2. CASE UNCHANGED <<stage, declared, open, root>>
  BY <1>2 DEF TableTyped
<1>3. CASE open' = [open EXCEPT ![Len(open)].text = text] /\ stage' = stage
  <2>1. open' = [open EXCEPT ![Len(open)] = e]
    BY <1>3
  <2>2. open \in Seq(Range(open)) /\ open # <<>> /\ stage' \in Stages
    BY <1>3 DEF ReadContent, TableTyped
  <2>3. QED
    BY <2>1, <2>2, OpenChanges
<1>4. QED
  <2>1. \/ doc[at].t \in {"text", "space"} /\ Fresh
        \/ doc[at].t \in {"comment", "space"} /\ ~Fresh
        \/ doc[at].t = "comment" /\ Fresh
        \/ ~(\/ doc[at].t \in {"text", "space"} /\ Fresh
             \/ doc[at].t \in {"comment", "space"} /\ ~Fresh
             \/ doc[at].t = "comment" /\ Fresh)
    OBVIOUS
  <2>2. QED
    BY <1>1, <1>2, <1>3, <2>1 DEF ReadContent

LEMMA TableStepKeepsType == TableTyped /\ TableStep /\ tries' = tries => TableTyped'
<1> SUFFICES ASSUME TableTyped, TableStep, tries' = tries
             PROVE  TableTyped'
  OBVIOUS
<1>1. CASE ReadProlog
  <2>1. at' \in 1..Len(doc') + 1 /\ doc' \in Documents
    BY <1>1, TokenTaken DEF ReadProlog
  <2>2. open' = open /\ (stage' = stage \/ stage' = "refused") /\ stage = "prolog"
    BY <1>1 DEF ReadProlog, Refuse
  <2>3. QED
    BY <2>1, <2>2 DEF TableTyped, Stages
<1>2. CASE ReadOpen
  BY <1>2, TokenTaken, OpenedType DEF ReadOpen, TableTyped
<1>3. CASE ReadClose
  BY <1>3, TokenTaken, ClosedType DEF ReadClose, TableTyped
<1>4. CASE ReadContent
  BY <1>4, TokenTaken, ContentType DEF ReadContent, TableTyped
<1>5. CASE ReadEpilog
  <2>1. at' \in 1..Len(doc') + 1 /\ doc' \in Documents
    BY <1>5, TokenTaken DEF ReadEpilog
  <2>2. open' = open /\ (stage' = stage \/ stage' = "refused") /\ stage = "epilog"
    BY <1>5 DEF ReadEpilog, Refuse
  <2>3. QED
    BY <2>1, <2>2 DEF TableTyped, Stages
<1>6. CASE ReadEnd \/ TakeChild \/ TakeLast
  BY <1>6 DEF ReadEnd, TakeChild, TakeLast, TableTyped, Stages
<1>7. QED
  BY <1>1, <1>2, <1>3, <1>4, <1>5, <1>6 DEF TableStep, ReadToken

\* What does not read the table leaves it alone.
LEMMA TableAlone == [Next]_vars => ParseTable \/ TryNextTable \/ UNCHANGED <<tableVars, tries>>
<1> DEFINE Elsewhere == UNCHANGED <<tableVars, tries>>
<1> SUFFICES ASSUME [Next]_vars, ~ParseTable, ~TryNextTable PROVE Elsewhere
  OBVIOUS
<1>1. CASE NoTable \/ Attach \/ Resolve \/ FallBack \/ Unresolved
  BY <1>1 DEF NoTable, Attach, Resolve, FallBack, Unresolved
<1>2. CASE TestStart \/ TestHealth \/ TestAmmo \/ TestHeight \/ TestJump \/ TestLand \/ TestRestore
  BY <1>2 DEF TestStart, TestHealth, TestAmmo, TestHeight, TestJump, TestLand, TestRestore, Still
<1>3. CASE Run \/ LineTest \/ ReadLine \/ StopPolling \/ PollKey \/ Tick
  BY <1>3 DEF Run, LineTest, ReadLine, StopPolling, PollKey, Tick, Close, Still
<1>4. CASE \E i \in 1..3 : LookAtHotkey(i)
  BY <1>4 DEF LookAtHotkey
<1>5. CASE Interrupt \/ FreezeWrites \/ GamePlays \/ KeyMoves
  BY <1>5 DEF Interrupt, FreezeWrites, GamePlays, KeyMoves
<1>6. CASE UNCHANGED vars
  BY <1>6 DEF vars
<1>7. QED
  BY <1>1, <1>2, <1>3, <1>4, <1>5, <1>6 DEF Next

LEMMA TableSafe == TableTyped /\ [Next]_vars => TableTyped'
<1> SUFFICES ASSUME TableTyped, [Next]_vars
             PROVE  TableTyped'
  OBVIOUS
<1>1. CASE ParseTable
  BY <1>1, TableStepKeepsType DEF ParseTable
<1>2. CASE TryNextTable
  <2>1. at' \in 1..Len(doc') + 1
    BY <1>2, TableAssumption, LenProperties DEF TryNextTable
  <2>2. open' \in Seq(Range(open'))
    BY <1>2, EmptySeq, IsASequence DEF TryNextTable
  <2>3. QED
    BY <1>2, <2>1, <2>2, TrainerAssumption DEF TryNextTable, TableTyped, Stages
<1>3. CASE UNCHANGED <<tableVars, tries>>
  BY <1>3 DEF TableTyped, tableVars
<1>4. QED
  BY <1>1, <1>2, <1>3, TableAlone

-----------------------------------------------------------------------------
(* The tree *)

\* An element with its list of children; and one whose children are such elements.
IsNode(e) ==
    /\ e = [name |-> e.name, text |-> e.text, attrs |-> e.attrs, children |-> e.children]
    /\ e.children \in Seq(Range(e.children))
IsTree(e) == IsNode(e) /\ \A i \in DOMAIN e.children : IsNode(e.children[i])

\* What has been read are trees, and there is an outer one to every one that is open.
Trees == IsTree(root) /\ \A i \in DOMAIN open : IsTree(open[i])

LEMMA ElementIsTree == ASSUME NEW name, NEW attrs PROVE IsTree(Element(name, attrs))
<1> DEFINE e == Element(name, attrs)
<1>1. e.children = <<>> /\ e = [name |-> e.name, text |-> e.text, attrs |-> e.attrs,
                                 children |-> e.children]
  BY DEF Element
<1>2. e.children \in Seq(Range(e.children)) /\ DOMAIN e.children = {}
  BY <1>1, EmptySeq, IsASequence
<1>3. QED
  BY <1>1, <1>2 DEF IsTree, IsNode

\* An element with another text, or other children.
LEMMA NodeChanges ==
    ASSUME NEW e, IsNode(e), NEW x
    PROVE  /\ [e EXCEPT !.text = x] = [name |-> e.name, text |-> x, attrs |-> e.attrs,
                                       children |-> e.children]
           /\ [e EXCEPT !.children = x] = [name |-> e.name, text |-> e.text,
                                           attrs |-> e.attrs, children |-> x]
<1>1. PICK n, t, a, c : e = [name |-> n, text |-> t, attrs |-> a, children |-> c]
  BY DEF IsNode
<1>2. QED
  BY <1>1

LEMMA TextChanges ==
    ASSUME NEW e, IsTree(e), NEW x
    PROVE  IsTree([e EXCEPT !.text = x])
<1> DEFINE f == [e EXCEPT !.text = x]
<1>1. f = [name |-> e.name, text |-> x, attrs |-> e.attrs, children |-> e.children]
  BY NodeChanges DEF IsTree
<1>2. e.children \in Seq(Range(e.children)) /\ \A i \in DOMAIN e.children : IsNode(e.children[i])
  BY DEF IsTree, IsNode
<1> HIDE DEF f
<1>3. IsTree(f)
  BY <1>1, <1>2 DEF IsTree, IsNode
<1>4. QED
  BY <1>3 DEF f

LEMMA TreeGrows ==
    ASSUME NEW e, NEW c, IsTree(e), IsTree(c)
    PROVE  IsTree([e EXCEPT !.children = Append(@, c)])
<1> DEFINE s == e.children
           t == Append(s, c)
           f == [e EXCEPT !.children = Append(@, c)]
<1>1. f = [name |-> e.name, text |-> e.text, attrs |-> e.attrs, children |-> t]
  BY NodeChanges DEF IsTree
<1>2. s \in Seq(Range(s)) /\ \A i \in DOMAIN s : IsNode(s[i])
  BY DEF IsTree, IsNode
<1>3. IsNode(c)
  BY DEF IsTree
<1> HIDE DEF s
<1>4. t \in Seq(Range(t))
  BY <1>2, OpenGrows
<1>5. \A i \in DOMAIN t : IsNode(t[i])
  <2>1. s \in Seq(Range(s) \cup {c})
    BY <1>2, SeqMonotonic
  <2>2. /\ Len(t) = Len(s) + 1 /\ Len(s) \in Nat /\ DOMAIN s = 1..Len(s)
        /\ DOMAIN t = 1..Len(t)
        /\ \A i \in 1..Len(s) : t[i] = s[i]
        /\ t[Len(s) + 1] = c
    BY <2>1, AppendProperties, LenProperties
  <2>3. \A i \in DOMAIN t : i \in 1..Len(s) \/ i = Len(s) + 1
    BY <2>2
  <2>4. QED
    BY <1>2, <1>3, <2>2, <2>3
<1> HIDE DEF t, f
<1>6. IsTree(f)
  BY <1>1, <1>4, <1>5 DEF IsTree, IsNode
<1>7. QED
  BY <1>6 DEF f

\* A step that changes one open element, or adds or takes away the innermost.
LEMMA OneChanged ==
    ASSUME NEW s, s \in Seq(Range(s)), s # <<>>, \A i \in DOMAIN s : IsTree(s[i]),
           NEW e, IsTree(e)
    PROVE  LET t == [s EXCEPT ![Len(s)] = e] IN \A i \in DOMAIN t : IsTree(t[i])
  OBVIOUS

LEMMA FinishTrees ==
    ASSUME NEW e, IsTree(e), NEW outer, outer \in Seq(Range(outer)), Finish(e, outer),
           IsTree(root), \A i \in DOMAIN outer : IsTree(outer[i])
    PROVE  Trees'
<1>1. CASE outer = <<>>
  <2>1. root' = e /\ open' = <<>>
    BY <1>1 DEF Finish
  <2>2. DOMAIN open' = {}
    BY <2>1
  <2>3. QED
    BY <2>1, <2>2 DEF Trees
<1>2. CASE outer # <<>>
  <2> DEFINE e1 == [outer[Len(outer)] EXCEPT !.children = Append(@, e)]
  <2>1. open' = [outer EXCEPT ![Len(outer)] = e1] /\ root' = root
    BY <1>2 DEF Finish
  <2>2. Len(outer) \in DOMAIN outer
    BY <1>2, EmptySeq, LenProperties
  <2>3. IsTree(e1)
    BY <2>2, TreeGrows
  <2> HIDE DEF e1
  <2>4. \A i \in DOMAIN open' : IsTree(open'[i])
    BY <1>2, <2>1, <2>3, OneChanged
  <2>5. QED
    BY <2>1, <2>4 DEF Trees
<1>3. QED
  BY <1>1, <1>2

LEMMA ReadTrees == TableTyped /\ Trees /\ TableStep => Trees'
<1> SUFFICES ASSUME TableTyped, Trees, TableStep PROVE Trees'
  OBVIOUS
<1>1. CASE UNCHANGED <<open, root>>
  BY <1>1 DEF Trees
<1>2. CASE ReadOpen
  <2> DEFINE e == Element(doc[at].name, Attributes(doc[at].attrs))
  <2>1. IsTree(e)
    BY ElementIsTree
  <2> HIDE DEF e
  <2>2. CASE Finish(e, open)
    BY <2>1, <2>2, FinishTrees DEF TableTyped, Trees
  <2>3. CASE open' = Append(open, e) /\ root' = root
    <3>1. open \in Seq(Range(open) \cup {e})
      BY SeqMonotonic DEF TableTyped
    <3>2. /\ Len(open') = Len(open) + 1 /\ Len(open) \in Nat /\ DOMAIN open = 1..Len(open)
          /\ DOMAIN open' = 1..Len(open')
          /\ \A i \in 1..Len(open) : open'[i] = open[i]
          /\ open'[Len(open) + 1] = e
      BY <2>3, <3>1, AppendProperties, LenProperties
    <3>3. \A i \in DOMAIN open' : i \in 1..Len(open) \/ i = Len(open) + 1
      BY <3>2
    <3>4. QED
      BY <2>1, <2>3, <3>2, <3>3 DEF Trees
  <2>4. QED
    BY <1>1, <1>2, <2>2, <2>3 DEF ReadOpen, Refuse, e
<1>3. CASE ReadClose
  <2>1. CASE Finish(Inner, Front(open))
    <3>1. open \in Seq(Range(open)) /\ open # <<>>
      BY <1>3 DEF ReadClose, TableTyped
    <3>2. Len(open) \in Nat \ {0} /\ DOMAIN open = 1..Len(open)
      BY <3>1, EmptySeq, LenProperties
    <3>3. /\ Front(open) \in Seq(Range(open)) /\ DOMAIN Front(open) = 1..Len(open) - 1
          /\ \A i \in 1..Len(open) - 1 : Front(open)[i] = open[i]
      BY <3>1, <3>2, SubSeqProperties DEF Front
    <3>4. Front(open) \in Seq(Range(Front(open)))
      BY <3>3, IsASequence
    <3>5. IsTree(Inner)
      BY <3>2 DEF Inner, Trees
    <3>6. \A i \in DOMAIN Front(open) : IsTree(Front(open)[i])
      BY <3>2, <3>3 DEF Trees
    <3>7. QED
      BY <2>1, <3>4, <3>5, <3>6, FinishTrees DEF Trees
  <2>2. QED
    BY <1>1, <1>3, <2>1 DEF ReadClose, Refuse
<1>4. CASE ReadContent
  <2> DEFINE text == IF doc[at].t = "text" THEN Resolved(doc[at].text) ELSE " "
             e    == [open[Len(open)] EXCEPT !.text = text]
  <2>1. CASE open' = [open EXCEPT ![Len(open)].text = text] /\ root' = root
    <3>1. open \in Seq(Range(open)) /\ open # <<>>
      BY <1>4 DEF ReadContent, TableTyped
    <3>2. Len(open) \in DOMAIN open
      BY <3>1, EmptySeq, LenProperties
    <3>3. IsTree(open[Len(open)])
      BY <3>2 DEF Trees
    <3>4. IsTree(e)
      BY <3>3, TextChanges
    <3>5. open' = [open EXCEPT ![Len(open)] = e]
      BY <2>1
    <3> HIDE DEF e, text
    <3>6. \A i \in DOMAIN open' : IsTree(open'[i])
      BY <3>1, <3>4, <3>5, OneChanged DEF Trees
    <3>7. QED
      BY <2>1, <3>6 DEF Trees
  <2>2. \/ doc[at].t \in {"text", "space"} /\ Fresh
        \/ doc[at].t \in {"comment", "space"} /\ ~Fresh
        \/ doc[at].t = "comment" /\ Fresh
        \/ ~(\/ doc[at].t \in {"text", "space"} /\ Fresh
             \/ doc[at].t \in {"comment", "space"} /\ ~Fresh
             \/ doc[at].t = "comment" /\ Fresh)
    OBVIOUS
  <2>3. UNCHANGED <<open, root>> \/ (open' = [open EXCEPT ![Len(open)].text = text] /\ root' = root)
    BY <1>4, <2>2 DEF ReadContent, Refuse
  <2>4. QED
    BY <1>1, <2>1, <2>3
<1>5. CASE ReadProlog \/ ReadEpilog \/ ReadEnd \/ TakeChild \/ TakeLast
  BY <1>1, <1>5 DEF ReadProlog, ReadEpilog, ReadEnd, TakeChild, TakeLast, Refuse
<1>6. QED
  BY <1>2, <1>3, <1>4, <1>5 DEF TableStep, ReadToken

LEMMA TreesSafe == TableTyped /\ Trees /\ [Next]_vars => Trees'
<1> SUFFICES ASSUME TableTyped, Trees, [Next]_vars PROVE Trees'
  OBVIOUS
<1>1. CASE ParseTable
  BY <1>1, ReadTrees DEF ParseTable
<1>2. CASE TryNextTable
  <2>1. root' = NoElement /\ open' = <<>>
    BY <1>2 DEF TryNextTable
  <2>2. DOMAIN open' = {}
    BY <2>1
  <2>3. QED
    BY <2>1, <2>2, ElementIsTree DEF Trees, NoElement
<1>3. CASE UNCHANGED <<tableVars, tries>>
  BY <1>3 DEF Trees, tableVars
<1>4. QED
  BY <1>1, <1>2, <1>3, TableAlone

-----------------------------------------------------------------------------
(* The entries *)

\* Before the tree is read there is no entry; then those before the child to be looked
\* at have been sorted.
Sorting ==
    /\ table = [entries |-> table.entries, unsupported |-> table.unsupported]
    /\ table.entries \in Seq(Range(table.entries))
    /\ table.unsupported \in Seq(Range(table.unsupported))
    /\ stage \notin {"entries", "parsed"} => child = 1 /\ table = EmptyTable
    /\ stage \in {"entries", "parsed"} =>
         child \in 1..Len(EntryNodes) + 1 /\ SortedUpTo(child)
    /\ stage = "parsed" => child = Len(EntryNodes) + 1

\* A set of numbers that is not empty has a least.
LEMMA LeastOf ==
    ASSUME NEW T, T \subseteq Nat, T # {}
    PROVE  \E n \in T : \A m \in T : n <= m
<1>1. PICK n \in T : \A m \in T : ~(<<m, n>> \in OpToRel(<, Nat))
  BY NatLessThanWellFounded, WFMin
<1>2. \A m \in T : ~(m < n)
  BY <1>1 DEF OpToRel
<1>3. \A m \in T : m \in Nat /\ n \in Nat
  OBVIOUS
<1>4. QED
  BY <1>2, <1>3

\* find_child returns a child of the node.
LEMMA FoundIsChild ==
    ASSUME NEW node, IsNode(node), NEW name, Has(node, name)
    PROVE  \E i \in DOMAIN node.children : FindChild(node, name) = node.children[i]
<1> DEFINE T == {i \in DOMAIN node.children : node.children[i].name = name}
<1>1. DOMAIN node.children \subseteq Nat /\ \A i \in DOMAIN node.children : 1..i-1 \subseteq DOMAIN node.children
  BY LenProperties DEF IsNode
<1>2. T \subseteq Nat /\ T # {}
  BY <1>1 DEF Has
<1>3. PICK i \in T : \A j \in T : i <= j
  BY <1>2, LeastOf
<1>4. \A j \in T : ~(j < i)
  BY <1>2, <1>3
<1>5. \A j \in 1..i-1 : node.children[j].name # name
  BY <1>1, <1>4
<1>6. QED
  BY <1>5 DEF FindChild

LEMMA EntryNodesType == Trees => Len(EntryNodes) \in Nat
<1> SUFFICES ASSUME Trees PROVE Len(EntryNodes) \in Nat
  OBVIOUS
<1>1. CASE Has(root, "CheatEntries")
  <2>1. PICK i \in DOMAIN root.children : FindChild(root, "CheatEntries") = root.children[i]
    BY <1>1, FoundIsChild DEF Trees, IsTree
  <2>2. IsNode(root.children[i])
    BY DEF Trees, IsTree
  <2>3. EntryNodes = root.children[i].children
    BY <1>1, <2>1 DEF EntryNodes
  <2>4. QED
    BY <2>2, <2>3, LenProperties DEF IsNode
<1>2. CASE ~Has(root, "CheatEntries")
  BY <1>2, EmptySeq DEF EntryNodes
<1>3. QED
  BY <1>1, <1>2

\* The entries of a tree stay while the tree does.
LEMMA NodesStay == root' = root => EntryNodes' = EntryNodes
<1> SUFFICES ASSUME root' = root PROVE EntryNodes' = EntryNodes
  OBVIOUS
<1>1. Has(root, "CheatEntries")' <=> Has(root, "CheatEntries")
  BY Zenon DEF Has
<1>2. FindChild(root, "CheatEntries")' = FindChild(root, "CheatEntries")
  BY Zenon DEF FindChild
<1>3. QED
  BY <1>1, <1>2 DEF EntryNodes

LEMMA SortingStays ==
    ASSUME NEW i, UNCHANGED <<root, table>>, SortedUpTo(i)
    PROVE  SortedUpTo(i)'
<1>1. EntryNodes' = EntryNodes
  BY NodesStay
<1>2. \A j : EntriesBefore(j)' = EntriesBefore(j)
  BY <1>1 DEF EntriesBefore
<1>3. \A j : IndexOf(j)' = IndexOf(j)
  BY <1>2 DEF IndexOf
<1>4. QED
  BY <1>1, <1>2, <1>3 DEF SortedUpTo, Lists

\* An entry added to a list after those before it.
LEMMA ListGrows ==
    ASSUME NEW list, list \in Seq(Range(list)), NEW n \in Nat, NEW S \in SUBSET (1..n-1),
           Lists(list, S), NEW e, e.id = EntryId(EntryNodes[n], IndexOf(n))
    PROVE  Lists(Append(list, e), S \cup {n})
<1> DEFINE U == S \cup {n}
           more == Append(list, e)
           rank(X, i) == {j \in X : j <= i}
<1>1. /\ Len(more) = Len(list) + 1
      /\ \A i \in 1..Len(list) : more[i] = list[i]
      /\ more[Len(list) + 1] = e
  <2>1. list \in Seq(Range(list) \cup {e})
    BY SeqMonotonic
  <2>2. QED
    BY <2>1, AppendProperties
<1>2. IsFiniteSet(S)
  <2>1. n - 1 \in Int /\ 1 \in Int
    OBVIOUS
  <2>2. IsFiniteSet(1..n-1)
    BY <2>1, FS_Interval
  <2>3. QED
    BY ONLY <2>2, S \in SUBSET (1..n-1), FS_Subset
<1>3. n \notin S /\ Len(list) = Cardinality(S) /\ Cardinality(S) \in Nat
  BY <1>2, FS_CardinalityType DEF Lists
<1>4. Cardinality(U) = Cardinality(S) + 1
  <2>1. n \notin S
    BY <1>3
  <2>2. QED
    BY ONLY <1>2, <2>1, FS_AddElement
<1>5. rank(U, n) = U
  <2>1. \A j \in S : j \in 1..n-1
    OBVIOUS
  <2>2. \A j \in U : j <= n
    BY <2>1
  <2>3. QED
    BY <2>2
<1>6. \A i \in S : rank(U, i) = rank(S, i)
  BY <1>3
<1>7. \A i \in S : Cardinality(rank(S, i)) \in 1..Len(list)
  <2> TAKE i \in S
  <2>1. rank(S, i) \subseteq S /\ i \in rank(S, i)
    OBVIOUS
  <2>2. rank(S, i) # {}
    BY <2>1
  <2> HIDE DEF rank
  <2>3. IsFiniteSet(rank(S, i)) /\ Cardinality(rank(S, i)) <= Cardinality(S)
    BY <1>2, <2>1, FS_Subset
  <2>4. Cardinality(rank(S, i)) \in Nat /\ Cardinality(rank(S, i)) # 0
    BY <2>2, <2>3, FS_CardinalityType, FS_EmptySet
  <2>5. QED
    BY <1>3, <2>3, <2>4
<1>8. \A i \in S : list[Cardinality(rank(S, i))].id = EntryId(EntryNodes[i], IndexOf(i))
  BY DEF Lists
<1> HIDE DEF rank
<1>9. \A i \in U : more[Cardinality(rank(U, i))].id = EntryId(EntryNodes[i], IndexOf(i))
  <2> TAKE i \in U
  <2>1. CASE i = n
    BY <1>1, <1>3, <1>4, <1>5, <2>1
  <2>2. CASE i \in S
    BY <1>1, <1>6, <1>7, <1>8, <2>2
  <2>3. QED
    BY <2>1, <2>2
<1>10. QED
  BY <1>1, <1>3, <1>4, <1>9 DEF Lists, rank

\* parse_string's tests find exactly the entries that must not be written.
LEMMA KindIsUnsafe ==
    ASSUME NEW node, NEW i
    PROVE  Entry(node, i).kind = "supported" <=> ~Unsafe(node)
<1>1. Entry(node, i).kind = Kind(node)
  BY DEF Entry
<1>2. \A names : (\E m \in names : Has(node, m))
                   <=> \E c \in Range(node.children) : c.name \in names
  BY DEF Has, Range
<1> DEFINE any(names) == \E m \in names : Has(node, m)
           carries(names) == \E c \in Range(node.children) : c.name \in names
<1>3. any(Scripts) <=> carries(Scripts)
  BY ONLY <1>2
<1>4. any(Injections) <=> carries(Injections)
  BY ONLY <1>2
<1>5. any(RawBytes) <=> carries(RawBytes)
  BY ONLY <1>2
<1>6. Unsafe(node) <=> (TypesNamed(TypeText(node)) = {} \/ carries(Scripts)
                          \/ carries(Injections) \/ carries(RawBytes))
  BY DEF Unsafe
<1>7. Kind(node) = "supported"
        <=> ~(TypesNamed(TypeText(node)) = {} \/ any(Scripts) \/ any(Injections) \/ any(RawBytes))
  BY DEF Kind
<1> HIDE DEF any, carries
<1>8. QED
  BY <1>1, <1>3, <1>4, <1>5, <1>6, <1>7

\* What a step that keeps the tree has sorted, in terms of the tree before it.
LEMMA SortedAfter ==
    ASSUME root' = root,
           Lists(table'.unsupported, {j \in EntriesBefore(child') : Unsafe(EntryNodes[j])}),
           Lists(table'.entries, {j \in EntriesBefore(child') : ~Unsafe(EntryNodes[j])})
    PROVE  SortedUpTo(child)'
<1>1. EntryNodes' = EntryNodes
  BY NodesStay
<1>2. \A i : EntriesBefore(i)' = EntriesBefore(i)
  BY <1>1 DEF EntriesBefore
<1>3. \A i : IndexOf(i)' = IndexOf(i)
  BY <1>2 DEF IndexOf
<1>4. EntriesBefore(child)' = EntriesBefore(child')
  BY <1>1 DEF EntriesBefore
<1>5. /\ Lists(table.unsupported, {j \in EntriesBefore(child) : Unsafe(EntryNodes[j])})'
      /\ Lists(table.entries, {j \in EntriesBefore(child) : ~Unsafe(EntryNodes[j])})'
  BY <1>1, <1>3, <1>4 DEF Lists
<1>6. QED
  BY <1>5 DEF SortedUpTo

\* The child that is looked at is sorted after those before it.
LEMMA TakeSorts == Trees /\ Sorting /\ TakeChild => Sorting'
<1> SUFFICES ASSUME Trees, Sorting, TakeChild PROVE Sorting'
  OBVIOUS
<1> DEFINE n == child
           node == EntryNodes[n]
           entry == Entry(node, IndexOf(n))
           entries == table.entries
           unsupported == table.unsupported
           others == {j \in EntriesBefore(n) : Unsafe(EntryNodes[j])}
           plain == {j \in EntriesBefore(n) : ~Unsafe(EntryNodes[j])}
<1>1. /\ n \in Nat /\ n \in 1..Len(EntryNodes) /\ Len(EntryNodes) \in Nat
      /\ child' = n + 1 /\ n + 1 - 1 \in Nat
      /\ stage = "entries" /\ stage' = stage /\ root' = root
  BY EntryNodesType DEF TakeChild, Sorting
<1>2. /\ Lists(unsupported, others) /\ Lists(entries, plain)
      /\ entries \in Seq(Range(entries)) /\ unsupported \in Seq(Range(unsupported))
  BY <1>1 DEF Sorting, SortedUpTo
<1>3. others \in SUBSET (1..n-1) /\ plain \in SUBSET (1..n-1)
  BY DEF EntriesBefore
<1>4. entry.id = EntryId(EntryNodes[n], IndexOf(n))
  BY DEF Entry
<1>5. 1..(n + 1)-1 = (1..n-1) \cup {n}
  BY <1>1
<1>6. EntriesBefore(n + 1) = EntriesBefore(n) \cup (IF node.name = "CheatEntry" THEN {n} ELSE {})
  BY <1>5 DEF EntriesBefore
<1> DEFINE Sorted(t) ==
      /\ t = [entries |-> t.entries, unsupported |-> t.unsupported]
      /\ t.entries \in Seq(Range(t.entries)) /\ t.unsupported \in Seq(Range(t.unsupported))
      /\ Lists(t.unsupported, {j \in EntriesBefore(n + 1) : Unsafe(EntryNodes[j])})
      /\ Lists(t.entries, {j \in EntriesBefore(n + 1) : ~Unsafe(EntryNodes[j])})
<1>7. table = [entries |-> entries, unsupported |-> unsupported]
  BY DEF Sorting
<1>8. Sorted(table')
  <2>1. CASE node.name # "CheatEntry"
    <3>1. table' = table
      BY <2>1 DEF TakeChild
    <3>2. EntriesBefore(n + 1) = EntriesBefore(n)
      BY <1>6, <2>1
    <3>3. QED
      BY <1>2, <1>7, <3>1, <3>2
  <2>2. CASE node.name = "CheatEntry" /\ entry.kind = "supported"
    <3>1. table' = [table EXCEPT !.entries = Append(@, entry)]
      BY <2>2 DEF TakeChild
    <3>2. ~Unsafe(EntryNodes[n])
      BY <2>2, KindIsUnsafe
    <3>3. Lists(Append(entries, entry), plain \cup {n})
      BY <1>1, <1>2, <1>3, <1>4, ListGrows
    <3> HIDE DEF entry, entries, unsupported
    <3>4. table' = [entries |-> Append(entries, entry), unsupported |-> unsupported]
      BY <1>7, <3>1
    <3>5. Append(entries, entry) \in Seq(Range(Append(entries, entry)))
      BY <1>2, OpenGrows
    <3>6. {j \in EntriesBefore(n + 1) : Unsafe(EntryNodes[j])} = others
      BY <1>6, <2>2, <3>2
    <3>7. {j \in EntriesBefore(n + 1) : ~Unsafe(EntryNodes[j])} = plain \cup {n}
      BY <1>6, <2>2, <3>2
    <3>8. QED
      BY <1>2, <3>3, <3>4, <3>5, <3>6, <3>7
  <2>3. CASE node.name = "CheatEntry" /\ entry.kind # "supported"
    <3>1. table' = [table EXCEPT !.unsupported = Append(@, entry)]
      BY <2>3 DEF TakeChild
    <3>2. Unsafe(EntryNodes[n])
      BY <2>3, KindIsUnsafe
    <3>3. Lists(Append(unsupported, entry), others \cup {n})
      BY <1>1, <1>2, <1>3, <1>4, ListGrows
    <3> HIDE DEF entry, entries, unsupported
    <3>4. table' = [entries |-> entries, unsupported |-> Append(unsupported, entry)]
      BY <1>7, <3>1
    <3>5. Append(unsupported, entry) \in Seq(Range(Append(unsupported, entry)))
      BY <1>2, OpenGrows
    <3>6. {j \in EntriesBefore(n + 1) : Unsafe(EntryNodes[j])} = others \cup {n}
      BY <1>6, <2>3, <3>2
    <3>7. {j \in EntriesBefore(n + 1) : ~Unsafe(EntryNodes[j])} = plain
      BY <1>6, <2>3, <3>2
    <3>8. QED
      BY <1>2, <3>3, <3>4, <3>5, <3>6, <3>7
  <2>4. QED
    BY <2>1, <2>2, <2>3
<1>9. EntryNodes' = EntryNodes
  BY <1>1, NodesStay
<1>10. SortedUpTo(child)'
  BY <1>1, <1>8, SortedAfter
<1>11. child' \in 1..Len(EntryNodes') + 1
  BY <1>1, <1>9
<1>12. QED
  BY <1>1, <1>8, <1>10, <1>11 DEF Sorting

LEMMA SortingSafe == TableTyped /\ Trees /\ Sorting /\ [Next]_vars => Sorting'
<1> SUFFICES ASSUME TableTyped, Trees, Sorting, [Next]_vars PROVE Sorting'
  OBVIOUS
<1>1. CASE UNCHANGED <<root, table, child, stage>>
  <2>1. EntryNodes' = EntryNodes
    BY <1>1, NodesStay
  <2>2. stage \in {"entries", "parsed"} => SortedUpTo(child)'
    BY <1>1, SortingStays DEF Sorting
  <2>3. QED
    BY <1>1, <2>1, <2>2 DEF Sorting
<1>2. CASE ParseTable
  <2>1. CASE ReadProlog \/ ReadOpen \/ ReadClose \/ ReadContent \/ ReadEpilog
    <3>1. stage \notin {"entries", "parsed"} /\ child' = child /\ table' = table
      BY <2>1 DEF ReadProlog, ReadOpen, ReadClose, ReadContent, ReadEpilog, Token
    <3>2. stage' \notin {"entries", "parsed"}
      BY <2>1 DEF ReadProlog, ReadOpen, ReadClose, ReadContent, ReadEpilog, Refuse, Finish
    <3>3. QED
      BY <3>1, <3>2 DEF Sorting
  <2>2. CASE ReadEnd
    <3>1. child' = 1 /\ table' = EmptyTable /\ root' = root /\ stage' \in {"entries", "refused"}
      BY <2>2 DEF ReadEnd, Sorting
    <3>2. EntryNodes' = EntryNodes /\ Len(EntryNodes) \in Nat
      BY <3>1, EntryNodesType, NodesStay
    <3>3. EntriesBefore(1)' = {}
      BY DEF EntriesBefore
    <3>4. Lists(<<>>, {})'
      BY FS_EmptySet, EmptySeq DEF Lists
    <3>5. SortedUpTo(1)'
      BY <3>1, <3>3, <3>4 DEF SortedUpTo, EmptyTable
    <3>6. /\ table' = [entries |-> table'.entries, unsupported |-> table'.unsupported]
          /\ table'.entries \in Seq(Range(table'.entries))
          /\ table'.unsupported \in Seq(Range(table'.unsupported))
      BY <3>1, EmptySeq, IsASequence DEF EmptyTable
    <3>7. QED
      BY <3>1, <3>2, <3>5, <3>6 DEF Sorting
  <2>3. CASE TakeChild
    BY <2>3, TakeSorts
  <2>4. CASE TakeLast
    <3>1. /\ stage = "entries" /\ stage' = "parsed" /\ child' = child
          /\ UNCHANGED <<root, table>> /\ child > Len(EntryNodes)
      BY <2>4 DEF TakeLast
    <3>2. EntryNodes' = EntryNodes /\ Len(EntryNodes) \in Nat
      BY <3>1, EntryNodesType, NodesStay
    <3>3. SortedUpTo(child)'
      BY <3>1, SortingStays DEF Sorting
    <3>4. QED
      BY <3>1, <3>2, <3>3 DEF Sorting
  <2>5. QED
    BY <1>2, <2>1, <2>2, <2>3, <2>4 DEF ParseTable, TableStep, ReadToken
<1>3. CASE TryNextTable
  <2>1. child' = 1 /\ table' = EmptyTable /\ stage' = "prolog"
    BY <1>3 DEF TryNextTable
  <2>2. QED
    BY <2>1, EmptySeq, IsASequence DEF Sorting, EmptyTable
<1>4. CASE UNCHANGED <<tableVars, tries>>
  BY <1>1, <1>4 DEF tableVars
<1>5. QED
  BY <1>2, <1>3, <1>4, TableAlone

LEMMA SortingSorts == Sorting => EntriesAreSorted
  BY DEF Sorting, EntriesAreSorted

-----------------------------------------------------------------------------
(* Lists of sequences, flattened *)

IsSeq(s) == s \in Seq(Range(s))

LEMMA ListIsSeq == ASSUME NEW S, NEW s \in Seq(S) PROVE IsSeq(s)
  BY SeqOfRange DEF IsSeq

LEMMA ConcatIsSeq ==
    ASSUME NEW s, NEW t, IsSeq(s), IsSeq(t)
    PROVE  IsSeq(s \o t)
<1> DEFINE S == Range(s) \cup Range(t)
<1>1. s \in Seq(S) /\ t \in Seq(S)
  BY SeqMonotonic DEF IsSeq
<1>2. s \o t \in Seq(S)
  BY <1>1, ConcatProperties
<1>3. QED
  BY <1>2, ListIsSeq

LEMMA ConcatAssoc ==
    ASSUME NEW s, NEW t, NEW u, IsSeq(s), IsSeq(t), IsSeq(u)
    PROVE  (s \o t) \o u = s \o (t \o u)
<1> DEFINE S == Range(s) \cup Range(t) \cup Range(u)
<1>1. s \in Seq(S) /\ t \in Seq(S) /\ u \in Seq(S)
  BY SeqMonotonic DEF IsSeq
<1>2. QED
  BY ONLY <1>1, ConcatAssociative

LEMMA ConcatEmpty ==
    ASSUME NEW s, IsSeq(s)
    PROVE  s \o <<>> = s /\ <<>> \o s = s
  BY ConcatEmptySeq DEF IsSeq

\* FlattenSeq's recursion, up to n.
Flattens(g, s, n) == g = [i \in 1..n |-> IF i = 1 THEN s[i] ELSE g[i-1] \o s[i]]

LEMMA FlattenExists == ASSUME NEW s, NEW n \in Nat PROVE \E g : Flattens(g, s, n)
<1> DEFINE T == {k \in Nat : ~\E g : Flattens(g, s, k)}
<1>1. SUFFICES ASSUME T # {} PROVE FALSE
  OBVIOUS
<1>2. T \subseteq Nat
  OBVIOUS
<1>3. PICK k \in T : \A m \in T : k <= m
  BY <1>1, <1>2, LeastOf
<1>4. k \in Nat /\ ~\E g : Flattens(g, s, k)
  OBVIOUS
<1>5. CASE k = 0
  <2> DEFINE g == [i \in {} |-> 0]
  <2>1. 1..k = {}
    BY <1>5
  <2>2. g = [i \in 1..k |-> IF i = 1 THEN s[i] ELSE g[i-1] \o s[i]]
    BY <2>1
  <2>3. QED
    BY <1>4, <2>2 DEF Flattens
<1>6. CASE k # 0
  <2>1. k - 1 \in Nat /\ ~(k <= k - 1)
    BY <1>4, <1>6
  <2>2. k - 1 \notin T
    BY <1>3, <2>1
  <2>3. PICK g : Flattens(g, s, k - 1)
    BY <2>1, <2>2
  <2> DEFINE h == [i \in 1..k |-> IF i < k THEN g[i] ELSE IF i = 1 THEN s[i] ELSE g[i-1] \o s[i]]
  <2>4. \A i \in 1..k-1 : g[i] = IF i = 1 THEN s[i] ELSE g[i-1] \o s[i]
    BY <2>3 DEF Flattens
  <2>5. \A i \in 1..k : h[i] = IF i = 1 THEN s[i] ELSE h[i-1] \o s[i]
    <3> TAKE i \in 1..k
    <3>1. CASE i < k
      <4>1. i \in 1..k-1 /\ i - 1 < k /\ (i # 1 => i - 1 \in 1..k)
        BY <1>4, <3>1
      <4>2. QED
        BY <2>4, <3>1, <4>1
    <3>2. CASE i = k
      <4>1. i # 1 => i - 1 \in 1..k /\ i - 1 < k
        BY <1>4, <3>2
      <4>2. ~(i < k)
        BY <1>4, <3>2
      <4>3. QED
        BY <4>1, <4>2
    <3>3. QED
      BY <1>4, <3>1, <3>2
  <2>6. h = [i \in 1..k |-> h[i]]
    OBVIOUS
  <2> HIDE DEF h
  <2>7. Flattens(h, s, k)
    BY <2>5, <2>6 DEF Flattens
  <2>8. QED
    BY <1>4, <2>7
<1>7. QED
  BY <1>5, <1>6

\* It gives sequences, and the same on two lists as far as they agree.
LEMMA FlattenAgrees ==
    ASSUME NEW s, NEW t, NEW n \in Nat, NEW m \in Nat, n <= m,
           \A i \in 1..n : s[i] = t[i] /\ IsSeq(s[i]),
           NEW g, Flattens(g, s, n), NEW h, Flattens(h, t, m)
    PROVE  \A i \in 1..n : g[i] = h[i] /\ IsSeq(g[i])
<1> DEFINE T == {i \in 1..n : ~(g[i] = h[i] /\ IsSeq(g[i]))}
<1>1. SUFFICES ASSUME T # {} PROVE FALSE
  OBVIOUS
<1>2. T \subseteq Nat
  OBVIOUS
<1>3. PICK i \in T : \A j \in T : i <= j
  BY <1>1, <1>2, LeastOf
<1>4. i \in 1..n /\ i \in 1..m
  OBVIOUS
<1>5. /\ g[i] = IF i = 1 THEN s[i] ELSE g[i-1] \o s[i]
      /\ h[i] = IF i = 1 THEN t[i] ELSE h[i-1] \o t[i]
  BY <1>4 DEF Flattens
<1>6. CASE i = 1
  BY <1>4, <1>5, <1>6
<1>7. CASE i # 1
  <2>1. i - 1 \in 1..n /\ ~(i <= i - 1)
    BY <1>4, <1>7
  <2>2. i - 1 \notin T
    BY <1>3, <2>1
  <2>3. g[i-1] = h[i-1] /\ IsSeq(g[i-1])
    BY <2>1, <2>2
  <2>4. QED
    BY <1>4, <1>5, <1>7, <2>3, ConcatIsSeq
<1>8. QED
  BY <1>6, <1>7

LEMMA FlattenIs ==
    ASSUME NEW n \in Nat \ {0}, NEW s, Len(s) = n
    PROVE  \E g : Flattens(g, s, n) /\ FlattenSeq(s) = g[n]
<1> DEFINE g == CHOOSE f : f = [i \in 1..n |-> IF i = 1 THEN s[i] ELSE f[i-1] \o s[i]]
<1>1. Flattens(g, s, n)
  BY FlattenExists DEF Flattens
<1>2. FlattenSeq(s) = g[n]
  BY DEF FlattenSeq
<1>3. QED
  BY <1>1, <1>2

LEMMA FlattenNone == FlattenSeq(<<>>) = <<>>
  BY EmptySeq DEF FlattenSeq

\* A list of n sequences.
ListOf(s, n) == s = [i \in 1..n |-> s[i]] /\ \A i \in 1..n : IsSeq(s[i])

LEMMA ListLength ==
    ASSUME NEW n \in Nat, NEW s, ListOf(s, n)
    PROVE  Len(s) = n /\ DOMAIN s = 1..n
<1> DEFINE S == {s[i] : i \in 1..n}
<1>1. s \in [1..n -> S]
  BY DEF ListOf
<1> HIDE DEF S
<1>2. s \in Seq(S)
  BY <1>1, SeqDef
<1>3. DOMAIN s = 1..n /\ DOMAIN s = 1..Len(s) /\ Len(s) \in Nat
  BY <1>1, <1>2, LenProperties
<1>4. Len(s) = n
  BY <1>3
<1>5. QED
  BY <1>3, <1>4

\* What is flattened of one list more is put at the end.
LEMMA FlattenMore ==
    ASSUME NEW n \in Nat, NEW s, NEW t, ListOf(s, n), ListOf(t, n + 1),
           \A i \in 1..n : t[i] = s[i]
    PROVE  FlattenSeq(t) = FlattenSeq(s) \o t[n+1] /\ IsSeq(FlattenSeq(s))
<1>1. n + 1 \in Nat \ {0} /\ n <= n + 1 /\ n + 1 \in 1..n+1
  OBVIOUS
<1>2. Len(s) = n /\ Len(t) = n + 1
  BY <1>1, ListLength
<1>3. PICK h : Flattens(h, t, n + 1) /\ FlattenSeq(t) = h[n+1]
  BY <1>1, <1>2, FlattenIs
<1>4. h[n+1] = IF n = 0 THEN t[n+1] ELSE h[n] \o t[n+1]
  <2> DEFINE k == n + 1
  <2>1. k \in 1..k /\ k - 1 = n /\ (k = 1 <=> n = 0)
    OBVIOUS
  <2>2. h = [i \in 1..k |-> IF i = 1 THEN t[i] ELSE h[i-1] \o t[i]]
    BY <1>3 DEF Flattens
  <2> HIDE DEF k
  <2>3. h[k] = IF k = 1 THEN t[k] ELSE h[k-1] \o t[k]
    BY <2>1, <2>2
  <2>4. h[k] = IF n = 0 THEN t[k] ELSE h[n] \o t[k]
    BY <2>1, <2>3
  <2>5. QED
    BY <2>4 DEF k
<1>5. CASE n = 0
  <2>1. s = <<>>
    BY <1>5 DEF ListOf
  <2>2. FlattenSeq(t) = t[n+1]
    BY <1>3, <1>4, <1>5
  <2>3. IsSeq(t[n+1])
    BY <1>1 DEF ListOf
  <2>4. IsSeq(<<>>)
    BY EmptySeq, ListIsSeq
  <2>5. QED
    BY <2>1, <2>2, <2>3, <2>4, FlattenNone, ConcatEmpty
<1>6. CASE n # 0
  <2>1. n \in Nat \ {0} /\ n \in 1..n
    BY <1>6
  <2>2. PICK g : Flattens(g, s, n) /\ FlattenSeq(s) = g[n]
    BY <1>2, <2>1, FlattenIs
  <2>3. \A i \in 1..n : s[i] = t[i] /\ IsSeq(s[i])
    BY DEF ListOf
  <2>4. g[n] = h[n] /\ IsSeq(g[n])
    BY <1>1, <1>3, <2>1, <2>2, <2>3, FlattenAgrees
  <2>5. QED
    BY <1>3, <1>4, <1>6, <2>2, <2>4
<1>7. QED
  BY <1>5, <1>6

LEMMA FlattenIsSeq ==
    ASSUME NEW n \in Nat, NEW s, ListOf(s, n)
    PROVE  IsSeq(FlattenSeq(s))
<1> DEFINE t == [i \in 1..n+1 |-> IF i \in 1..n THEN s[i] ELSE <<>>]
<1>1. ListOf(t, n + 1)
  BY EmptySeq, ListIsSeq DEF ListOf
<1>2. \A i \in 1..n : t[i] = s[i]
  OBVIOUS
<1> HIDE DEF t
<1>3. QED
  BY <1>1, <1>2, FlattenMore
-----------------------------------------------------------------------------
(* The tokens of the tree *)

\* The levels of a tree, and the tokens of their nodes, as Tokens has them.
Leveled(g, e, m) ==
    g = [n \in 0..m |-> IF n = 0 THEN {e} ELSE UNION {Range(x.children) : x \in g[n-1]}]
ToldAt(x, n, f) ==
    TokensOf(x, [i \in DOMAIN x.children |-> IF n = 0 THEN <<>> ELSE f[n-1][x.children[i]]])
Told(f, g, m) == f = [n \in 0..m |-> [x \in g[m-n] |-> ToldAt(x, n, f)]]

LEMMA LevelsExist == ASSUME NEW e, NEW m \in Nat PROVE \E g : Leveled(g, e, m)
<1> DEFINE T == {k \in Nat : ~\E g : Leveled(g, e, k)}
<1>1. SUFFICES ASSUME T # {} PROVE FALSE
  OBVIOUS
<1>2. PICK k \in T : \A n \in T : k <= n
  BY <1>1, LeastOf
<1>3. k \in Nat /\ ~\E g : Leveled(g, e, k)
  OBVIOUS
<1>4. CASE k = 0
  <2> DEFINE g == [n \in 0..0 |-> {e}]
  <2>1. g = [n \in 0..0 |-> IF n = 0 THEN {e} ELSE UNION {Range(x.children) : x \in g[n-1]}]
    OBVIOUS
  <2>2. QED
    BY <1>3, <1>4, <2>1 DEF Leveled
<1>5. CASE k # 0
  <2>1. k - 1 \in Nat /\ ~(k <= k - 1)
    BY <1>3, <1>5
  <2>2. PICK g : Leveled(g, e, k - 1)
    BY <1>2, <2>1
  <2> DEFINE of(n, h) == IF n = 0 THEN {e} ELSE UNION {Range(x.children) : x \in h[n-1]}
             h == [n \in 0..k |-> IF n < k THEN g[n] ELSE of(n, g)]
  <2>3. \A n \in 0..k-1 : g[n] = of(n, g)
    BY <2>2 DEF Leveled
  <2>4. \A n \in 0..k : h[n] = of(n, h)
    <3> TAKE n \in 0..k
    <3>1. h[n] = of(n, g)
      <4>1. n < k => n \in 0..k-1
        BY <1>3
      <4>2. QED
        BY <2>3, <4>1
    <3>2. n # 0 => n - 1 \in 0..k /\ n - 1 < k
      BY <1>3
    <3>3. n # 0 => h[n-1] = g[n-1]
      BY <3>2
    <3> HIDE DEF h
    <3>4. of(n, h) = of(n, g)
      BY <3>3
    <3>5. QED
      BY <3>1, <3>4
  <2>5. h = [n \in 0..k |-> h[n]]
    OBVIOUS
  <2> HIDE DEF h
  <2>6. h = [n \in 0..k |-> of(n, h)]
    BY <2>4, <2>5
  <2>7. Leveled(h, e, k)
    BY <2>6 DEF Leveled
  <2>8. QED
    BY <1>3, <2>7
<1>6. QED
  BY <1>4, <1>5

\* Of the n lowest levels above the last, for any levels.
LEMMA TellingExists == ASSUME NEW g, NEW m \in Nat PROVE \E f : Told(f, g, m)
<1> DEFINE row(j, f) == [x \in g[m-j] |-> ToldAt(x, j, f)]
           part(f, n) == f = [j \in 0..n |-> row(j, f)]
           T == {n \in Nat : ~\E f : part(f, n)}
<1>1. SUFFICES ASSUME T # {} PROVE FALSE
  <2>1. m \notin T
    BY <1>1
  <2>2. QED
    BY <2>1 DEF Told
<1>2. PICK k \in T : \A n \in T : k <= n
  BY <1>1, LeastOf
<1>3. k \in Nat /\ ~\E f : part(f, k)
  OBVIOUS
<1>4. \E f : \A j \in 0..k : j < k => f[j] = row(j, f)
  <2>1. CASE k = 0
    BY <2>1
  <2>2. CASE k # 0
    <3>1. k - 1 \in Nat /\ ~(k <= k - 1) /\ \A j \in 0..k : j < k => j \in 0..k-1
      BY <1>3, <2>2
    <3>2. PICK f : part(f, k - 1)
      BY <1>2, <3>1
    <3> HIDE DEF row, T
    <3>3. \A j \in 0..k-1 : f[j] = row(j, f)
      BY <3>2
    <3>4. QED
      BY <3>1, <3>3
  <2>3. QED
    BY <2>1, <2>2
<1>5. PICK f : \A j \in 0..k : j < k => f[j] = row(j, f)
  BY <1>4
<1> DEFINE h == [j \in 0..k |-> IF j < k THEN f[j] ELSE row(j, f)]
<1>6. \A j \in 0..k : h[j] = row(j, h)
  <2> TAKE j \in 0..k
  <2>1. h[j] = row(j, f)
    BY <1>3, <1>5
  <2>2. j # 0 => j - 1 \in 0..k /\ j - 1 < k
    BY <1>3
  <2>3. j # 0 => h[j-1] = f[j-1]
    BY <2>2
  <2> HIDE DEF h
  <2>4. \A x : ToldAt(x, j, h) = ToldAt(x, j, f)
    <3> TAKE x
    <3>1. [i \in DOMAIN x.children |-> IF j = 0 THEN <<>> ELSE h[j-1][x.children[i]]]
            = [i \in DOMAIN x.children |-> IF j = 0 THEN <<>> ELSE f[j-1][x.children[i]]]
      BY <2>3
    <3>2. QED
      BY <3>1 DEF ToldAt
  <2>5. row(j, h) = row(j, f)
    BY <2>4
  <2>6. QED
    BY <2>1, <2>5
<1>7. h = [j \in 0..k |-> h[j]]
  OBVIOUS
<1> HIDE DEF h
<1>8. part(h, k)
  BY <1>6, <1>7
<1>9. QED
  BY <1>3, <1>8

LEMMA TokensAre ==
    ASSUME NEW e, NEW m \in Nat
    PROVE  \E g, f : Leveled(g, e, m) /\ Told(f, g, m) /\ Tokens(e, m) = f[m][e]
<1> DEFINE g == CHOOSE h : Leveled(h, e, m)
           f == CHOOSE h : Told(h, g, m)
<1>1. Leveled(g, e, m)
  BY LevelsExist
<1>2. Told(f, g, m)
  BY TellingExists
<1>3. Tokens(e, m) = f[m][e]
  BY DEF Tokens, Leveled, Told, ToldAt
<1>4. QED
  BY <1>1, <1>2, <1>3

\* A child's tree lies one level lower in its parent's, and what is told of it is the same.
LEMMA LevelsBelow ==
    ASSUME NEW m \in Nat, NEW g, NEW h, NEW e, NEW c \in Range(e.children),
           Leveled(g, e, m + 1), Leveled(h, c, m)
    PROVE  \A n \in 0..m : h[n] \subseteq g[n+1]
<1> DEFINE T == {n \in 0..m : ~(h[n] \subseteq g[n+1])}
<1>1. SUFFICES ASSUME T # {} PROVE FALSE
  OBVIOUS
<1>2. PICK n \in T : \A j \in T : n <= j
  <2>1. T \subseteq Nat
    OBVIOUS
  <2>2. QED
    BY <1>1, <2>1, LeastOf
<1>3. n \in 0..m /\ n + 1 \in 0..m+1 /\ n + 1 # 0 /\ (n + 1) - 1 = n /\ 0 \in 0..m+1
  OBVIOUS
<1>4. /\ h[n] = IF n = 0 THEN {c} ELSE UNION {Range(x.children) : x \in h[n-1]}
      /\ g[n+1] = UNION {Range(x.children) : x \in g[n]}
      /\ g[0] = {e}
  BY <1>3 DEF Leveled
<1>5. CASE n = 0
  BY <1>3, <1>4, <1>5
<1>6. CASE n # 0
  <2>1. n - 1 \in 0..m /\ ~(n <= n - 1) /\ (n - 1) + 1 = n
    BY <1>3, <1>6
  <2>2. h[n-1] \subseteq g[(n-1)+1]
    BY <1>2, <2>1
  <2>3. h[n-1] \subseteq g[n]
    BY <2>1, <2>2
  <2>4. QED
    BY <1>3, <1>4, <1>6, <2>3
<1>7. QED
  BY <1>5, <1>6

LEMMA SameTold ==
    ASSUME NEW m \in Nat, NEW g, NEW h, NEW e, NEW c \in Range(e.children),
           Leveled(g, e, m + 1), Leveled(h, c, m), NEW f, NEW k, Told(f, g, m + 1), Told(k, h, m)
    PROVE  f[m][c] = k[m][c]
<1> DEFINE T == {n \in 0..m : ~\A x \in h[m-n] : f[n][x] = k[n][x]}
<1>1. T = {}
  <2>1. SUFFICES ASSUME T # {} PROVE FALSE
    OBVIOUS
  <2>2. PICK n \in T : \A j \in T : n <= j
    <3>1. T \subseteq Nat
      OBVIOUS
    <3>2. QED
      BY <2>1, <3>1, LeastOf
  <2>3. PICK x \in h[m-n] : f[n][x] # k[n][x]
    OBVIOUS
  <2>4. n \in 0..m /\ n \in 0..m+1 /\ m - n \in 0..m /\ (m - n) + 1 = (m + 1) - n
    OBVIOUS
  <2>5. x \in g[(m+1)-n]
    <3>1. h[m-n] \subseteq g[(m-n)+1]
      BY <2>4, LevelsBelow
    <3>2. QED
      BY <2>3, <2>4, <3>1
  <2>6. f[n][x] = ToldAt(x, n, f) /\ k[n][x] = ToldAt(x, n, k)
    <3>1. f[n] = [y \in g[(m+1)-n] |-> ToldAt(y, n, f)] /\ k[n] = [y \in h[m-n] |-> ToldAt(y, n, k)]
      BY <2>4 DEF Told
    <3>2. QED
      BY <2>3, <2>5, <3>1
  <2>7. n # 0 => \A i \in DOMAIN x.children : f[n-1][x.children[i]] = k[n-1][x.children[i]]
    <3> SUFFICES ASSUME n # 0, NEW i \in DOMAIN x.children
                 PROVE  f[n-1][x.children[i]] = k[n-1][x.children[i]]
      OBVIOUS
    <3>1. /\ n - 1 \in 0..m /\ ~(n <= n - 1)
          /\ m - (n - 1) \in 0..m /\ m - (n - 1) # 0 /\ (m - (n - 1)) - 1 = m - n
      BY <2>4
    <3>2. x.children[i] \in Range(x.children)
      BY DEF Range
    <3>3. h[m-(n-1)] = UNION {Range(y.children) : y \in h[m-n]}
      BY <3>1 DEF Leveled
    <3>4. x.children[i] \in h[m-(n-1)]
      BY <2>3, <3>2, <3>3
    <3>5. n - 1 \notin T
      BY <2>2, <3>1
    <3>6. QED
      BY <3>1, <3>4, <3>5
  <2>8. [i \in DOMAIN x.children |-> IF n = 0 THEN <<>> ELSE f[n-1][x.children[i]]]
          = [i \in DOMAIN x.children |-> IF n = 0 THEN <<>> ELSE k[n-1][x.children[i]]]
    BY <2>7
  <2>9. QED
    BY <2>3, <2>6, <2>8 DEF ToldAt
<1>2. m \in 0..m /\ m - m = 0 /\ 0 \in 0..m
  OBVIOUS
<1>3. h[0] = {c}
  BY <1>2 DEF Leveled
<1>4. c \in h[m-m]
  BY <1>2, <1>3
<1>5. QED
  BY <1>1, <1>2, <1>4

\* The tokens of a tree, from those of the children.
Within(e, m) == [i \in DOMAIN e.children |-> Tokens(e.children[i], m)]

LEMMA TokensEquation == \A e, m : m \in Nat => Tokens(e, m + 1) = TokensOf(e, Within(e, m))
<1> TAKE e, m
<1> SUFFICES ASSUME m \in Nat PROVE Tokens(e, m + 1) = TokensOf(e, Within(e, m))
  OBVIOUS
<1>1. m + 1 \in Nat /\ m + 1 \in 0..m+1 /\ (m + 1) - (m + 1) = 0 /\ 0 \in 0..m+1
      /\ m + 1 # 0 /\ (m + 1) - 1 = m
  OBVIOUS
<1>2. PICK g, f : Leveled(g, e, m + 1) /\ Told(f, g, m + 1) /\ Tokens(e, m + 1) = f[m+1][e]
  BY <1>1, TokensAre
<1>3. g[(m+1)-(m+1)] = {e}
  BY <1>1, <1>2 DEF Leveled
<1>4. f[m+1] = [x \in g[(m+1)-(m+1)] |-> ToldAt(x, m + 1, f)]
  BY <1>1, <1>2 DEF Told
<1>5. f[m+1][e] = ToldAt(e, m + 1, f)
  BY <1>3, <1>4
<1>6. \A i \in DOMAIN e.children : f[m][e.children[i]] = Tokens(e.children[i], m)
  <2> TAKE i \in DOMAIN e.children
  <2> DEFINE c == e.children[i]
  <2>1. c \in Range(e.children)
    BY DEF Range
  <2> HIDE DEF c
  <2>2. PICK h, k : Leveled(h, c, m) /\ Told(k, h, m) /\ Tokens(c, m) = k[m][c]
    BY TokensAre
  <2>3. f[m][c] = k[m][c]
    BY <1>2, <2>1, <2>2, SameTold
  <2>4. QED
    BY <2>2, <2>3 DEF c
<1>7. [i \in DOMAIN e.children |-> IF m + 1 = 0 THEN <<>> ELSE f[(m+1)-1][e.children[i]]] = Within(e, m)
  BY <1>1, <1>6 DEF Within
<1>8. QED
  BY <1>2, <1>5, <1>7 DEF ToldAt

\* What has been read of the document, and what m open elements, one inside the other, say
\* of it: the children of the i-th have a tree of m - i levels more.
Prefix(n) == FlattenSeq([i \in 1..n |-> SignificantAt(i)])
BegunOf(elements, m) ==
    [i \in DOMAIN elements |-> Begun(elements[i], Within(elements[i], m - i))]
Opened(elements, m) == FlattenSeq(BegunOf(elements, m))

\* The children have tokens.
Tokened(e, m) == IsTree(e) /\ \A i \in DOMAIN e.children : IsSeq(Tokens(e.children[i], m))

\* What has been read and what is open have the same tokens, and in the end those are
\* the tree's; an element whose tag has just been read is empty.
Reading ==
    /\ \A i \in DOMAIN open : Tokened(open[i], Len(doc) - i)
    /\ stage = "prolog" => open = <<>> /\ Prefix(at - 1) = <<>>
    /\ stage = "body" => /\ Opened(open, Len(doc)) = Prefix(at - 1) /\ Len(open) < at
                         /\ Fresh => Inner.children = <<>> /\ Inner.text \in Blanks
    /\ stage \in {"epilog", "entries", "parsed"} => Tokens(root, Len(doc)) = Prefix(at - 1)
    /\ stage \in {"entries", "parsed"} => at = Len(doc) + 1

LEMMA PairIsSeq == ASSUME NEW a, NEW b PROVE IsSeq(<<a, b>>)
<1>1. <<a, b>> \in Seq({a, b})
  OBVIOUS
<1>2. QED
  BY <1>1, ListIsSeq

LEMMA EmptyIsSeq == IsSeq(<<>>)
  BY EmptySeq, ListIsSeq

LEMMA SignificantIsSeq == ASSUME NEW i PROVE IsSeq(SignificantAt(i))
  BY PairIsSeq, EmptyIsSeq, ConcatIsSeq DEF SignificantAt

\* One token more has been read.
LEMMA PrefixGrows ==
    ASSUME NEW n \in Nat
    PROVE  /\ Prefix(n + 1) = Prefix(n) \o SignificantAt(n + 1)
           /\ IsSeq(Prefix(n))
<1> DEFINE s == [i \in 1..n |-> SignificantAt(i)]
           t == [i \in 1..n+1 |-> SignificantAt(i)]
<1>1. ListOf(s, n) /\ ListOf(t, n + 1)
  BY SignificantIsSeq DEF ListOf
<1>2. (\A i \in 1..n : t[i] = s[i]) /\ t[n+1] = SignificantAt(n + 1)
  OBVIOUS
<1> HIDE DEF s, t
<1>3. FlattenSeq(t) = FlattenSeq(s) \o t[n+1] /\ IsSeq(FlattenSeq(s))
  BY <1>1, <1>2, FlattenMore
<1>4. QED
  BY <1>2, <1>3 DEF Prefix, s, t

LEMMA NoPrefix == Prefix(0) = <<>>
<1>1. [i \in 1..0 |-> SignificantAt(i)] = <<>>
  OBVIOUS
<1>2. QED
  BY <1>1, FlattenNone DEF Prefix

\* The children of a node make a list.
LEMMA WithinList ==
    ASSUME NEW e, NEW m, Tokened(e, m)
    PROVE  Len(e.children) \in Nat /\ ListOf(Within(e, m), Len(e.children))
<1>1. e.children \in Seq(Range(e.children))
  BY DEF Tokened, IsTree, IsNode
<1>2. DOMAIN e.children = 1..Len(e.children) /\ Len(e.children) \in Nat
  BY <1>1, LenProperties
<1>3. QED
  BY <1>2 DEF Within, ListOf, Tokened

LEMMA OpeningIsSeq == ASSUME NEW e PROVE IsSeq(Opening(e))
<1>1. CASE e.text \in Blanks
  BY <1>1, PairIsSeq, EmptyIsSeq, ConcatIsSeq DEF Opening
<1>2. CASE e.text \notin Blanks
  BY <1>2, PairIsSeq, ConcatIsSeq DEF Opening
<1>3. QED
  BY <1>1, <1>2

LEMMA BegunIsSeq ==
    ASSUME NEW e, NEW m, Tokened(e, m)
    PROVE  IsSeq(Begun(e, Within(e, m)))
<1>1. IsSeq(FlattenSeq(Within(e, m)))
  BY WithinList, FlattenIsSeq
<1>2. QED
  BY <1>1, OpeningIsSeq, ConcatIsSeq DEF Begun

LEMMA TokensIsSeq ==
    ASSUME NEW e, NEW m \in Nat, Tokened(e, m)
    PROVE  /\ IsSeq(Tokens(e, m + 1))
           /\ Tokens(e, m + 1) = Begun(e, Within(e, m)) \o <<"close", e.name>>
<1>1. Tokens(e, m + 1) = Begun(e, Within(e, m)) \o <<"close", e.name>>
  BY TokensEquation DEF TokensOf
<1>2. QED
  BY <1>1, BegunIsSeq, PairIsSeq, ConcatIsSeq

\* An element just read, without children and text.
LEMMA ElementTokens ==
    ASSUME NEW name, NEW attrs, NEW e, NEW m, e = Element(name, attrs)
    PROVE  /\ Tokened(e, m) /\ Begun(e, Within(e, m)) = <<"open", name>>
           /\ e.name = name /\ e.children = <<>> /\ e.text \in Blanks
<1>1. e.name = name /\ e.text \in Blanks /\ e.children = <<>>
  BY Zenon DEF Element, Blanks
<1>2. DOMAIN e.children = {}
  BY <1>1
<1>3. Tokened(e, m)
  BY <1>2, ElementIsTree DEF Tokened
<1>4. Within(e, m) = <<>>
  BY <1>2 DEF Within
<1>5. Begun(e, Within(e, m)) = (<<"open", name>> \o <<>>) \o <<>>
  BY <1>1, <1>4, FlattenNone DEF Begun, Opening
<1>6. QED
  BY <1>1, <1>3, <1>5, PairIsSeq, ConcatEmpty

\* A child more.
LEMMA ChildTokens ==
    ASSUME NEW m \in Nat, NEW e, NEW c, Tokened(e, m + 1), Tokened(c, m)
    PROVE  LET f == [e EXCEPT !.children = Append(@, c)]
           IN Tokened(f, m + 1) /\ Begun(f, Within(f, m + 1)) = Begun(e, Within(e, m + 1)) \o Tokens(c, m + 1)
<1> DEFINE f == [e EXCEPT !.children = Append(@, c)]
           n == Len(e.children)
<1>1. f = [name |-> e.name, text |-> e.text, attrs |-> e.attrs,
           children |-> Append(e.children, c)]
  BY NodeChanges DEF Tokened, IsTree
<1>2. f.name = e.name /\ f.text = e.text /\ f.children = Append(e.children, c)
  BY <1>1
<1>3. IsTree(f)
  BY TreeGrows DEF Tokened
<1>4. e.children \in Seq(Range(e.children) \cup {c})
  BY SeqMonotonic DEF Tokened, IsTree, IsNode
<1> HIDE DEF f
<1>5. /\ n \in Nat /\ DOMAIN e.children = 1..n /\ DOMAIN f.children = 1..n+1
      /\ (\A i \in 1..n : f.children[i] = e.children[i]) /\ f.children[n+1] = c
      /\ Len(f.children) = n + 1
  BY <1>2, <1>4, AppendProperties, LenProperties
<1>6. IsSeq(Tokens(c, m + 1))
  BY TokensIsSeq
<1>7. \A i \in 1..n+1 : i \in 1..n \/ i = n + 1
  BY <1>5
<1>8. Tokened(f, m + 1)
  BY <1>3, <1>5, <1>6, <1>7 DEF Tokened
<1>9. ListOf(Within(e, m + 1), n) /\ ListOf(Within(f, m + 1), n + 1)
  <2>1. ListOf(Within(e, m + 1), Len(e.children)) /\ ListOf(Within(f, m + 1), Len(f.children))
    BY <1>8, WithinList
  <2>2. QED
    BY <1>5, <2>1
<1>10. (\A i \in 1..n : Within(f, m + 1)[i] = Within(e, m + 1)[i]) /\ Within(f, m + 1)[n+1] = Tokens(c, m + 1)
  BY <1>5 DEF Within
<1>11. FlattenSeq(Within(f, m + 1)) = FlattenSeq(Within(e, m + 1)) \o Tokens(c, m + 1) /\ IsSeq(FlattenSeq(Within(e, m + 1)))
  <2> DEFINE s == Within(e, m + 1)
             t == Within(f, m + 1)
             x == Tokens(c, m + 1)
  <2> HIDE DEF n, s, t, x
  <2>1. n \in Nat /\ ListOf(s, n) /\ ListOf(t, n + 1) /\ (\A i \in 1..n : t[i] = s[i]) /\ t[n+1] = x
    BY <1>5, <1>9, <1>10 DEF s, t, x
  <2>2. FlattenSeq(t) = FlattenSeq(s) \o t[n+1] /\ IsSeq(FlattenSeq(s))
    BY ONLY <2>1, FlattenMore
  <2>3. QED
    BY <2>1, <2>2 DEF s, t, x
<1>12. Opening(f) = Opening(e) /\ IsSeq(Opening(e))
  BY <1>2, OpeningIsSeq DEF Opening
<1>13. (Opening(e) \o FlattenSeq(Within(e, m + 1))) \o Tokens(c, m + 1)
         = Opening(e) \o (FlattenSeq(Within(e, m + 1)) \o Tokens(c, m + 1))
  BY <1>6, <1>11, <1>12, ConcatAssoc
<1>14. Begun(f, Within(f, m + 1)) = Begun(e, Within(e, m + 1)) \o Tokens(c, m + 1)
  BY <1>11, <1>12, <1>13 DEF Begun
<1>15. QED
  BY <1>8, <1>14 DEF f

\* t has the elements of s and then e.
Grown(s, t, n, e, m) ==
    /\ DOMAIN s = 1..n /\ DOMAIN t = 1..n+1 /\ t[n+1] = e /\ Tokened(e, m - (n + 1))
    /\ \A i \in 1..n : t[i] = s[i] /\ Tokened(s[i], m - i)

LEMMA OpenedMore ==
    ASSUME NEW n \in Nat, NEW s, NEW t, NEW e, NEW m, Grown(s, t, n, e, m)
    PROVE  /\ Opened(t, m) = Opened(s, m) \o Begun(e, Within(e, m - (n + 1)))
           /\ IsSeq(Opened(s, m)) /\ \A i \in DOMAIN t : Tokened(t[i], m - i)
<1>0. /\ DOMAIN s = 1..n /\ DOMAIN t = 1..n+1 /\ t[n+1] = e /\ Tokened(e, m - (n + 1))
      /\ \A i \in 1..n : t[i] = s[i] /\ Tokened(s[i], m - i)
  BY DEF Grown
<1>1. \A i \in 1..n+1 : i \in 1..n \/ i = n + 1
  OBVIOUS
<1>2. (\A i \in 1..n+1 : Tokened(t[i], m - i)) /\ n + 1 \in 1..n+1
  BY <1>0, <1>1
<1> DEFINE p == BegunOf(s, m)
           q == BegunOf(t, m)
<1>3. (\A i \in 1..n : IsSeq(p[i]) /\ q[i] = p[i]) /\ p = [i \in 1..n |-> p[i]]
  BY <1>0, <1>1, BegunIsSeq DEF BegunOf
<1>4. (\A i \in 1..n+1 : IsSeq(q[i])) /\ q = [i \in 1..n+1 |-> q[i]]
  BY <1>0, <1>2, BegunIsSeq DEF BegunOf
<1>5. q[n+1] = Begun(e, Within(e, m - (n + 1)))
  BY <1>0, <1>2 DEF BegunOf
<1>6. Opened(s, m) = FlattenSeq(p) /\ Opened(t, m) = FlattenSeq(q)
  BY DEF Opened
<1> HIDE DEF p, q
<1>7. ListOf(p, n) /\ ListOf(q, n + 1)
  BY <1>3, <1>4 DEF ListOf
<1>8. FlattenSeq(q) = FlattenSeq(p) \o q[n+1] /\ IsSeq(FlattenSeq(p))
  BY <1>3, <1>7, FlattenMore
<1>9. QED
  BY <1>0, <1>2, <1>5, <1>6, <1>8

\* A list of elements that is not empty: the innermost and those before it.
Elements(s, m) == s \in Seq(Range(s)) /\ s # <<>> /\ \A i \in DOMAIN s : Tokened(s[i], m - i)
BegunLast(s, m) == Begun(s[Len(s)], Within(s[Len(s)], m - Len(s)))

LEMMA FrontElements ==
    ASSUME NEW s, NEW m, Elements(s, m)
    PROVE  \E n \in Nat : /\ Len(s) = n + 1 /\ DOMAIN s = 1..n+1 /\ Tokened(s[n+1], m - (n + 1))
                          /\ Front(s) \in Seq(Range(Front(s))) /\ DOMAIN Front(s) = 1..n
                          /\ \A i \in 1..n : Front(s)[i] = s[i] /\ Tokened(s[i], m - i)
<1>0. s \in Seq(Range(s)) /\ s # <<>>
  BY DEF Elements
<1>1. Len(s) \in Nat \ {0} /\ DOMAIN s = 1..Len(s)
  BY <1>0, EmptySeq, LenProperties
<1>2. PICK n \in Nat : n = Len(s) - 1
  <2>1. Len(s) - 1 \in Nat
    BY <1>1
  <2>2. QED
    BY <2>1, Zenon
<1>3. Len(s) = n + 1
  BY <1>1, <1>2
<1>4. DOMAIN s = 1..n+1
  BY <1>1, <1>3
<1>5. /\ Front(s) \in Seq(Range(s)) /\ DOMAIN Front(s) = 1..n
      /\ \A i \in 1..n : Front(s)[i] = s[i]
  <2>1. /\ Front(s) \in Seq(Range(s)) /\ DOMAIN Front(s) = 1..Len(s)-1
        /\ \A i \in 1..Len(s)-1 : Front(s)[i] = s[i]
    BY <1>0, <1>1, SubSeqProperties DEF Front
  <2>2. QED
    BY <1>2, <2>1
<1>6. Front(s) \in Seq(Range(Front(s)))
  BY <1>5, IsASequence
<1>7. n + 1 \in DOMAIN s /\ \A i \in 1..n : i \in DOMAIN s
  BY <1>4
<1>8. Tokened(s[n+1], m - (n + 1)) /\ \A i \in 1..n : Tokened(s[i], m - i)
  BY <1>7 DEF Elements
<1>9. \A i \in 1..n : Front(s)[i] = s[i] /\ Tokened(s[i], m - i)
  BY <1>5, <1>8
<1>10. QED
  BY <1>3, <1>4, <1>5, <1>6, <1>8, <1>9

LEMMA OpenedSplit ==
    ASSUME NEW s, NEW m, Elements(s, m)
    PROVE  Opened(s, m) = Opened(Front(s), m) \o BegunLast(s, m) /\ IsSeq(Opened(Front(s), m))
<1> DEFINE f == Front(s)
<1>1. PICK n \in Nat : /\ Len(s) = n + 1 /\ DOMAIN s = 1..n+1 /\ Tokened(s[n+1], m - (n + 1))
                       /\ DOMAIN f = 1..n /\ \A i \in 1..n : f[i] = s[i] /\ Tokened(s[i], m - i)
  BY FrontElements
<1> HIDE DEF f
<1>2. PICK e : e = s[n+1]
  OBVIOUS
<1>3. Grown(f, s, n, e, m)
  BY <1>1, <1>2 DEF Grown
<1>4. Opened(s, m) = Opened(f, m) \o Begun(e, Within(e, m - (n + 1))) /\ IsSeq(Opened(f, m))
  BY <1>3, OpenedMore
<1>5. s[Len(s)] = e
  BY <1>1, <1>2
<1>6. BegunLast(s, m) = Begun(e, Within(e, m - (n + 1)))
  BY <1>1, <1>5 DEF BegunLast
<1>7. QED
  BY <1>4, <1>6 DEF f

\* The innermost element of s says x more in t.
LastMore(s, t, x, m) ==
    /\ Elements(s, m) /\ IsSeq(x)
    /\ \E e : /\ Tokened(e, m - Len(s)) /\ Begun(e, Within(e, m - Len(s))) = BegunLast(s, m) \o x
              /\ t = [s EXCEPT ![Len(s)] = e]

LEMMA LastSaysMore ==
    ASSUME NEW s, NEW t, NEW x, NEW m, LastMore(s, t, x, m)
    PROVE  Opened(t, m) = Opened(s, m) \o x /\ \A i \in DOMAIN t : Tokened(t[i], m - i)
<1>1. PICK e : /\ Tokened(e, m - Len(s)) /\ Begun(e, Within(e, m - Len(s))) = BegunLast(s, m) \o x
               /\ t = [s EXCEPT ![Len(s)] = e]
  BY DEF LastMore
<1>2. Elements(s, m) /\ IsSeq(x)
  BY DEF LastMore
<1> DEFINE f == Front(s)
<1>3. PICK n \in Nat : /\ Len(s) = n + 1 /\ DOMAIN s = 1..n+1 /\ Tokened(s[n+1], m - (n + 1))
                       /\ DOMAIN f = 1..n /\ \A i \in 1..n : f[i] = s[i] /\ Tokened(s[i], m - i)
  BY <1>2, FrontElements
<1>4. Opened(s, m) = Opened(f, m) \o BegunLast(s, m) /\ IsSeq(Opened(f, m))
  BY <1>2, OpenedSplit
<1> HIDE DEF f
<1>5. n + 1 \in 1..n+1 /\ \A i \in 1..n : i \in 1..n+1 /\ i # n + 1
  OBVIOUS
<1>6. DOMAIN t = 1..n+1 /\ t[n+1] = e /\ \A i \in 1..n : t[i] = s[i]
  BY <1>1, <1>3, <1>5
<1>7. \A i \in 1..n : t[i] = f[i] /\ Tokened(f[i], m - i)
  BY <1>3, <1>6
<1>8. Grown(f, t, n, e, m)
  BY <1>1, <1>3, <1>6, <1>7 DEF Grown
<1>9. /\ Opened(t, m) = Opened(f, m) \o Begun(e, Within(e, m - Len(s)))
      /\ \A i \in DOMAIN t : Tokened(t[i], m - i)
  <2>1. /\ Opened(t, m) = Opened(f, m) \o Begun(e, Within(e, m - (n + 1)))
        /\ \A i \in DOMAIN t : Tokened(t[i], m - i)
    BY ONLY n \in Nat, <1>8, OpenedMore
  <2>2. QED
    BY <1>3, <2>1
<1>10. IsSeq(BegunLast(s, m))
  BY <1>3, BegunIsSeq DEF BegunLast
<1>11. (Opened(f, m) \o BegunLast(s, m)) \o x = Opened(f, m) \o (BegunLast(s, m) \o x)
  BY <1>2, <1>4, <1>10, ConcatAssoc
<1>12. QED
  BY <1>1, <1>4, <1>9, <1>11

LEMMA NoneOpened == ASSUME NEW m PROVE Opened(<<>>, m) = <<>>
<1>1. BegunOf(<<>>, m) = <<>>
  BY DEF BegunOf
<1>2. QED
  BY <1>1, FlattenNone DEF Opened

LEMMA LastChanged ==
    ASSUME NEW s, s \in Seq(Range(s)), s # <<>>, NEW e
    PROVE  Len([s EXCEPT ![Len(s)] = e]) = Len(s)
<1>1. s \in Seq(Range(s) \cup {e})
  BY SeqMonotonic
<1>2. Len(s) \in 1..Len(s)
  BY <1>1, EmptySeq, LenProperties
<1>3. QED
  BY <1>1, <1>2, ExceptSeq

\* A finished element is the root, or what its parent says more.
LEMMA FinishTokens ==
    ASSUME NEW m, NEW n \in Nat, NEW e, Tokened(e, n), NEW outer, outer \in Seq(Range(outer)),
           m - Len(outer) = n + 1, \A i \in DOMAIN outer : Tokened(outer[i], m - i),
           Finish(e, outer)
    PROVE  /\ \A i \in DOMAIN open' : Tokened(open'[i], m - i)
           /\ outer = <<>> => stage' = "epilog" /\ root' = e
           /\ outer # <<>> => /\ stage' = stage /\ Len(open') = Len(outer)
                              /\ Opened(open', m) = Opened(outer, m) \o Tokens(e, n + 1)
<1>1. CASE outer = <<>>
  <2>1. root' = e /\ open' = <<>> /\ stage' = "epilog"
    BY <1>1 DEF Finish
  <2>2. DOMAIN open' = {}
    BY <2>1
  <2>3. QED
    BY <1>1, <2>1, <2>2
<1>2. CASE outer # <<>>
  <2> DEFINE d == outer[Len(outer)]
             f == [d EXCEPT !.children = Append(@, e)]
  <2>1. open' = [outer EXCEPT ![Len(outer)] = f] /\ stage' = stage
    BY <1>2 DEF Finish
  <2>2. Elements(outer, m)
    BY <1>2 DEF Elements
  <2>3. Tokened(d, n + 1) /\ BegunLast(outer, m) = Begun(d, Within(d, n + 1))
    <3>1. Tokened(d, m - Len(outer)) /\ BegunLast(outer, m) = Begun(d, Within(d, m - Len(outer)))
      BY <2>2, FrontElements DEF BegunLast
    <3>2. QED
      BY <3>1
  <2>4. Len(open') = Len(outer)
    BY <1>2, <2>1, LastChanged
  <2> HIDE DEF d
  <2>5. Tokened(f, n + 1) /\ Begun(f, Within(f, n + 1)) = Begun(d, Within(d, n + 1)) \o Tokens(e, n + 1)
    BY <2>3, ChildTokens
  <2> DEFINE t == open'
             x == Tokens(e, n + 1)
  <2> HIDE DEF f, t, x
  <2>6. LastMore(outer, t, x, m)
    BY <2>1, <2>2, <2>3, <2>5, TokensIsSeq DEF LastMore, t, x
  <2>7. Opened(t, m) = Opened(outer, m) \o x /\ \A i \in DOMAIN t : Tokened(t[i], m - i)
    BY <2>6, LastSaysMore
  <2>8. QED
    BY <1>2, <2>1, <2>4, <2>7 DEF t, x
<1>3. QED
  BY <1>1, <1>2

\* One token more of the document.
LEMMA TokenRead ==
    ASSUME TableTyped, Token
    PROVE  /\ Prefix(at - 1)' = Prefix(at - 1) \o SignificantAt(at) /\ IsSeq(Prefix(at - 1))
           /\ doc' = doc /\ (Fresh' <=> doc[at].t = "open") /\ IsSeq(SignificantAt(at))
<1>1. at - 1 \in Nat /\ at \in Nat /\ at' = at + 1 /\ doc' = doc
  BY DocumentType DEF TableTyped, Token
<1>2. \A i : SignificantAt(i)' = SignificantAt(i)
  BY <1>1 DEF SignificantAt, Resolved
<1>3. Prefix(at - 1)' = Prefix(at)
  <2>1. at' - 1 = at
    BY <1>1
  <2>2. QED
    BY <1>2, <2>1 DEF Prefix
<1>4. Prefix((at - 1) + 1) = Prefix(at - 1) \o SignificantAt((at - 1) + 1) /\ IsSeq(Prefix(at - 1))
  BY <1>1, PrefixGrows
<1>5. (at - 1) + 1 = at
  BY <1>1
<1>6. Prefix(at - 1)' = Prefix(at - 1) \o SignificantAt(at)
  BY <1>3, <1>4, <1>5
<1>8. Fresh' <=> doc[at].t = "open"
  <2>1. at' - 1 = at
    BY <1>1
  <2>2. QED
    BY <1>1, <2>1 DEF Fresh
<1>9. QED
  BY <1>4, <1>1, <1>6, <1>8, SignificantIsSeq

LEMMA TokenSkipped ==
    ASSUME TableTyped, Token, doc[at].t \in {"space", "comment", "decl"}
    PROVE  Prefix(at - 1)' = Prefix(at - 1) /\ ~Fresh' 
<1>1. SignificantAt(at) = <<>>
  BY DEF SignificantAt
<1>2. QED
  BY <1>1, TokenRead, ConcatEmpty

LEMMA SkippingReads ==
    ASSUME TableTyped, Reading, Token, doc[at].t \in {"space", "comment", "decl"},
           UNCHANGED <<open, root, stage>>, stage \notin {"entries", "parsed"}
    PROVE  Reading'
<1>1. Prefix(at - 1)' = Prefix(at - 1) /\ ~Fresh'
  BY TokenSkipped
<1>2. doc' = doc /\ at' = at + 1 /\ at \in Nat
  BY DocumentType DEF Token, TableTyped
<1>3. stage = "body" => Len(open') \in Nat /\ Len(open) < at'
  <2>1. Len(open) \in Nat
    BY LenProperties DEF TableTyped
  <2>2. QED
    BY <1>2, <2>1 DEF Reading
<1>4. /\ \A i \in DOMAIN open : Tokened(open[i], Len(doc) - i)
      /\ stage = "prolog" => open = <<>> /\ Prefix(at - 1) = <<>>
      /\ stage = "body" => Opened(open, Len(doc)) = Prefix(at - 1)
      /\ stage = "epilog" => Tokens(root, Len(doc)) = Prefix(at - 1)
  BY DEF Reading
<1>5. QED
  BY <1>1, <1>2, <1>3, <1>4 DEF Reading

LEMMA RefusedReads == Reading /\ Token /\ Refuse => Reading'
  BY DEF Reading, Refuse, Token

\* Of a document that has n tokens the reader has not looked at all of them.
LEMMA TokensLeft ==
    ASSUME TableTyped, Token
    PROVE  \E n \in Nat : n = Len(doc) /\ at \in 1..n /\ at' = at + 1
  BY DocumentType DEF TableTyped, Token

LEMMA OpenReads ==
    ASSUME TableTyped, Reading, ReadOpen
    PROVE  Reading'
<1> DEFINE e == Element(doc[at].name, Attributes(doc[at].attrs))
           name == doc[at].name
           read == Prefix(at - 1)
<1>0. Token /\ stage \in {"prolog", "body"}
  BY DEF ReadOpen
<1>1. /\ open \in Seq(Range(open)) /\ (stage = "prolog" <=> open = <<>>)
      /\ \A i \in DOMAIN open : Tokened(open[i], Len(doc) - i)
      /\ Len(open) \in Nat
  BY <1>0, LenProperties DEF Reading, TableTyped
<1>2. PICK n \in Nat : n = Len(doc) /\ at \in 1..n /\ at' = at + 1
  BY <1>0, TokensLeft
<1>3. PICK k \in Nat : n - Len(open) = k + 1 /\ Len(open) < at
  <2>1. Len(open) < at
    BY <1>0, <1>1, <1>2, EmptySeq DEF Reading
  <2>2. n - Len(open) - 1 \in Nat /\ n - Len(open) = (n - Len(open) - 1) + 1
    BY <1>1, <1>2, <2>1
  <2>3. QED
    BY <2>1, <2>2
<1>4. Opened(open, n) = read /\ IsSeq(read)
  <2>1. IsSeq(read)
    BY <1>0, TokenRead
  <2>2. QED
    BY <1>0, <1>1, <1>2, <2>1, NoneOpened DEF Reading
<1>5. /\ Prefix(at - 1)' = read \o SignificantAt(at) /\ doc' = doc
      /\ (Fresh' <=> doc[at].t = "open")
  BY <1>0, TokenRead
<1>6. /\ Tokened(e, k) /\ Begun(e, Within(e, k)) = <<"open", name>>
      /\ e.name = name /\ e.children = <<>> /\ e.text \in Blanks
  BY ElementTokens
<1> HIDE DEF e, name, read
<1>7. CASE Refuse
  BY <1>0, <1>7, RefusedReads
<1>8. CASE doc[at].t = "empty" /\ Finish(e, open)
  <2> DEFINE x == Tokens(e, k + 1)
  <2>1. x = <<"open", name>> \o <<"close", name>> /\ IsSeq(x)
    BY <1>6, TokensIsSeq
  <2>2. SignificantAt(at) = x
    BY <1>8, <2>1 DEF SignificantAt, name
  <2>3. /\ \A i \in DOMAIN open' : Tokened(open'[i], n - i)
        /\ open = <<>> => stage' = "epilog" /\ root' = e
        /\ open # <<>> => /\ stage' = stage /\ Len(open') = Len(open)
                          /\ Opened(open', n) = Opened(open, n) \o x
    <3>1. /\ Tokened(e, k) /\ open \in Seq(Range(open)) /\ n - Len(open) = k + 1
          /\ (\A i \in DOMAIN open : Tokened(open[i], n - i)) /\ Finish(e, open)
      BY <1>1, <1>2, <1>3, <1>6, <1>8
    <3>2. QED
      BY ONLY k \in Nat, <3>1, FinishTokens
  <2>4. ~Fresh'
    BY <1>5, <1>8
  <2>5. CASE open = <<>>
    <3>1. n = k + 1
      BY <1>2, <1>3, <2>5, EmptySeq
    <3>2. Tokens(root', n) = x
      BY <2>3, <2>5, <3>1
    <3>3. Prefix(at - 1)' = x
      BY <1>4, <1>5, <2>1, <2>2, <2>5, NoneOpened, ConcatEmpty
    <3>4. QED
      BY <1>2, <1>5, <2>3, <2>5, <3>2, <3>3 DEF Reading
  <2>6. CASE open # <<>>
    <3>1. stage' = "body" /\ Opened(open', n) = Prefix(at - 1)'
      BY <1>0, <1>1, <1>4, <1>5, <2>2, <2>3, <2>6
    <3>2. Len(open') < at'
      BY <1>1, <1>2, <1>3, <2>3, <2>6
    <3>3. QED
      BY <1>2, <1>5, <2>3, <2>4, <3>1, <3>2 DEF Reading
  <2>7. QED
    BY <2>5, <2>6
<1>9. CASE doc[at].t = "open" /\ open' = Append(open, e) /\ stage' = "body" /\ root' = root
  <2> DEFINE t == open'
  <2>1. PICK l \in Nat : l = Len(open)
    BY <1>1
  <2>2. /\ DOMAIN open = 1..l /\ DOMAIN t = 1..l+1 /\ Len(t) = l + 1
        /\ \A i \in 1..l : t[i] = open[i] /\ Tokened(open[i], n - i)
        /\ t[l+1] = e
    <3>1. open \in Seq(Range(open) \cup {e})
      BY <1>1, SeqMonotonic
    <3>2. /\ DOMAIN open = 1..l /\ DOMAIN t = 1..l+1 /\ Len(t) = l + 1
          /\ (\A i \in 1..l : t[i] = open[i]) /\ t[l+1] = e
      BY <1>9, <2>1, <3>1, AppendProperties, LenProperties
    <3>3. QED
      BY <1>1, <1>2, <3>2
  <2>3. k = n - (l + 1)
    BY <1>3, <2>1
  <2> HIDE DEF t
  <2>4. /\ Opened(t, n) = Opened(open, n) \o <<"open", name>>
        /\ \A i \in DOMAIN t : Tokened(t[i], n - i)
    <3>1. Grown(open, t, l, e, n)
      BY <1>6, <2>2, <2>3 DEF Grown
    <3>2. Begun(e, Within(e, n - (l + 1))) = <<"open", name>>
      BY <1>6, <2>3
    <3>3. /\ Opened(t, n) = Opened(open, n) \o Begun(e, Within(e, n - (l + 1)))
          /\ \A i \in DOMAIN t : Tokened(t[i], n - i)
      BY ONLY l \in Nat, <3>1, OpenedMore
    <3>4. QED
      BY <3>2, <3>3
  <2>5. SignificantAt(at) = <<"open", name>>
    BY <1>9 DEF SignificantAt, name
  <2>6. Opened(t, n) = Prefix(at - 1)'
    BY <1>4, <1>5, <2>4, <2>5
  <2>7. Inner' = e /\ Len(t) < at'
    BY <1>2, <1>3, <2>1, <2>2 DEF Inner, t
  <2>8. QED
    BY <1>2, <1>5, <1>6, <1>9, <2>4, <2>6, <2>7 DEF Reading, t
<1>10. QED
  BY <1>7, <1>8, <1>9 DEF ReadOpen, e

LEMMA CloseReads ==
    ASSUME TableTyped, Reading, ReadClose
    PROVE  Reading'
<1> DEFINE e == Inner
           f == Front(open)
           read == Prefix(at - 1)
           closed == <<"close", e.name>>
<1>0. Token /\ stage = "body"
  BY DEF ReadClose
<1>1. PICK n \in Nat : n = Len(doc) /\ at \in 1..n /\ at' = at + 1
  BY <1>0, TokensLeft
<1>2. Elements(open, n) /\ Opened(open, n) = read /\ Len(open) < at
  BY <1>0, <1>1 DEF Elements, Reading, TableTyped
<1>3. Prefix(at - 1)' = read \o SignificantAt(at) /\ doc' = doc /\ ~Fresh'
  BY <1>0, TokenRead DEF ReadClose
<1>4. PICK l \in Nat : /\ Len(open) = l + 1 /\ Tokened(open[l+1], n - (l + 1))
                       /\ f \in Seq(Range(f)) /\ DOMAIN f = 1..l
                       /\ \A i \in 1..l : f[i] = open[i] /\ Tokened(open[i], n - i)
  BY <1>2, FrontElements
<1>5. PICK k \in Nat : k = n - (l + 1) /\ n - Len(f) = k + 1 /\ Len(f) = l
  <2>1. Len(f) = l
    BY <1>4, LenProperties
  <2>2. n - (l + 1) \in Nat /\ n - l = (n - (l + 1)) + 1
    BY <1>1, <1>2, <1>4
  <2>3. QED
    BY <2>1, <2>2
<1>6. /\ Tokened(e, k) /\ BegunLast(open, n) = Begun(e, Within(e, k))
      /\ \A i \in DOMAIN f : Tokened(f[i], n - i)
  BY <1>4, <1>5 DEF BegunLast, Inner
<1>7. Opened(open, n) = Opened(f, n) \o BegunLast(open, n) /\ IsSeq(Opened(f, n))
  BY <1>2, OpenedSplit
<1> DEFINE x == Tokens(e, k + 1)
           begun == Begun(e, Within(e, k))
<1> HIDE DEF e, f, read
<1>8. x = begun \o closed /\ IsSeq(begun) /\ IsSeq(closed) /\ IsSeq(x)
  BY <1>6, TokensIsSeq, BegunIsSeq, PairIsSeq
<1>9. CASE Refuse
  BY <1>0, <1>9, RefusedReads
<1>10. CASE e.name = doc[at].name /\ Finish(e, f)
  <2>1. SignificantAt(at) = closed
    BY <1>10 DEF SignificantAt, ReadClose
  <2>2. /\ \A i \in DOMAIN open' : Tokened(open'[i], n - i)
        /\ f = <<>> => stage' = "epilog" /\ root' = e
        /\ f # <<>> => /\ stage' = stage /\ Len(open') = Len(f)
                       /\ Opened(open', n) = Opened(f, n) \o x
    <3>1. /\ Tokened(e, k) /\ f \in Seq(Range(f)) /\ n - Len(f) = k + 1
          /\ (\A i \in DOMAIN f : Tokened(f[i], n - i)) /\ Finish(e, f)
      BY <1>4, <1>5, <1>6, <1>10
    <3>2. QED
      BY ONLY k \in Nat, <3>1, FinishTokens
  <2> HIDE DEF closed, begun, x
  <2>3. Prefix(at - 1)' = Opened(f, n) \o x
    <3>1. Prefix(at - 1)' = (Opened(f, n) \o begun) \o closed
      BY <1>2, <1>3, <1>6, <1>7, <2>1 DEF begun
    <3>2. (Opened(f, n) \o begun) \o closed = Opened(f, n) \o (begun \o closed)
      BY <1>7, <1>8, ConcatAssoc
    <3>3. QED
      BY <1>8, <3>1, <3>2
  <2>4. CASE f = <<>>
    <3>1. n = k + 1
      BY <1>1, <1>5, <2>4, EmptySeq
    <3>2. Tokens(root', n) = x
      BY <2>2, <2>4, <3>1 DEF x
    <3>3. Opened(f, n) \o x = x
      BY <1>8, <2>4, NoneOpened, ConcatEmpty
    <3>4. QED
      BY <1>1, <1>3, <2>2, <2>3, <2>4, <3>2, <3>3 DEF Reading
  <2>5. CASE f # <<>>
    <3>1. Len(open') < at'
      BY <1>1, <1>2, <1>4, <1>5, <2>2, <2>5
    <3>2. QED
      BY <1>0, <1>1, <1>3, <2>2, <2>3, <2>5, <3>1 DEF Reading
  <2>6. QED
    BY <2>4, <2>5
<1>11. QED
  BY <1>9, <1>10 DEF ReadClose, e, f

\* The element whose tag has just been read, with a text.
LEMMA TextTokens ==
    ASSUME NEW e, NEW m, Tokened(e, m), e.children = <<>>, e.text \in Blanks, NEW text,
           NEW f, f = [e EXCEPT !.text = text]
    PROVE  /\ Tokened(f, m)
           /\ text \in Blanks => Begun(f, Within(f, m)) = Begun(e, Within(e, m)) \o <<>>
           /\ text \notin Blanks =>
                Begun(f, Within(f, m)) = Begun(e, Within(e, m)) \o <<"text", text>>
<1>1. f = [name |-> e.name, text |-> text, attrs |-> e.attrs, children |-> e.children]
  BY NodeChanges DEF Tokened, IsTree
<1>2. f.name = e.name /\ f.text = text /\ f.children = <<>>
  BY <1>1
<1>3. IsTree(f)
  BY TextChanges DEF Tokened
<1>4. DOMAIN f.children = {} /\ DOMAIN e.children = {}
  BY <1>2
<1>5. Tokened(f, m)
  BY <1>3, <1>4 DEF Tokened
<1>6. Within(f, m) = <<>> /\ Within(e, m) = <<>>
  BY <1>4 DEF Within
<1>7. IsSeq(Opening(e)) /\ IsSeq(Opening(f)) /\ IsSeq(<<"open", e.name>>)
  BY OpeningIsSeq, PairIsSeq
<1>8. Begun(f, Within(f, m)) = Opening(f) /\ Begun(e, Within(e, m)) = Opening(e)
  BY <1>6, <1>7, FlattenNone, ConcatEmpty DEF Begun
<1>9. Opening(e) = <<"open", e.name>>
  BY <1>7, ConcatEmpty DEF Opening
<1>10. Opening(f) = <<"open", e.name>> \o (IF text \in Blanks THEN <<>> ELSE <<"text", text>>)
  BY <1>2 DEF Opening
<1>11. QED
  BY <1>5, <1>8, <1>9, <1>10

LEMMA ContentReads ==
    ASSUME TableTyped, Reading, ReadContent
    PROVE  Reading'
<1> DEFINE text == IF doc[at].t = "text" THEN Resolved(doc[at].text) ELSE " "
           e == Inner
           f == [e EXCEPT !.text = text]
           read == Prefix(at - 1)
           x == SignificantAt(at)
           n == Len(doc)
           k == n - Len(open)
<1>1. /\ Elements(open, n) /\ Opened(open, n) = read /\ stage = "body" /\ Token
      /\ Len(open) \in Nat /\ Len(open) < at /\ at \in Nat /\ at' = at + 1
  <2>1. stage = "body" /\ Token
    BY DEF ReadContent
  <2>2. Elements(open, n) /\ Opened(open, n) = read /\ Len(open) < at
    BY <2>1 DEF Elements, Reading, TableTyped
  <2>3. Len(open) \in Nat /\ at \in Nat
    BY DocumentType, LenProperties DEF TableTyped
  <2>4. QED
    BY <2>1, <2>2, <2>3 DEF Token
<1>2. /\ Prefix(at - 1)' = read \o x /\ doc' = doc /\ ~Fresh' /\ IsSeq(x)
  BY <1>1, TokenRead DEF ReadContent
<1>3. CASE /\ doc[at].t \in {"text", "space"} /\ Fresh
           /\ open' = [open EXCEPT ![Len(open)].text = text] /\ UNCHANGED <<stage, root>>
  <2>1. Tokened(e, k) /\ BegunLast(open, n) = Begun(e, Within(e, k))
    <3>1. Tokened(open[Len(open)], k)
      BY <1>1, FrontElements
    <3>2. QED
      BY <3>1 DEF BegunLast, Inner
  <2>2. e.children = <<>> /\ e.text \in Blanks
    BY <1>1, <1>3 DEF Reading
  <2>3. open' = [open EXCEPT ![Len(open)] = f]
    BY <1>3 DEF Inner
  <2> HIDE DEF e
  <2>4. \/ text \in Blanks /\ x = <<>>
        \/ text \notin Blanks /\ x = <<"text", text>>
    <3>1. CASE doc[at].t = "text"
      <4>1. doc \in Documents /\ at \in DOMAIN doc
        <5>1. doc \in Documents /\ at \in 1..Len(doc) + 1 /\ at <= Len(doc)
          BY DEF TableTyped, ReadContent, Token
        <5>2. QED
          BY <5>1, DocumentType, TableAssumption, LenProperties
      <4>2. Resolved(doc[at].text) \notin Blanks
        BY <3>1, <4>1, TextAssumption
      <4>3. QED
        BY <3>1, <4>2 DEF SignificantAt
    <3>2. CASE doc[at].t = "space"
      <4>1. text = " " /\ x = <<>>
        BY <3>2 DEF SignificantAt
      <4>2. " " \in Blanks
        BY Zenon DEF Blanks
      <4>3. QED
        BY <4>1, <4>2
    <3>3. QED
      BY <1>3, <3>1, <3>2
  <2> HIDE DEF text, x
  <2>5. Tokened(f, k) /\ Begun(f, Within(f, k)) = Begun(e, Within(e, k)) \o x
    <3>1. PICK j : j = k
      OBVIOUS
    <3>2. PICK g : g = [e EXCEPT !.text = text]
      OBVIOUS
    <3>3. /\ Tokened(g, j)
          /\ text \in Blanks => Begun(g, Within(g, j)) = Begun(e, Within(e, j)) \o <<>>
          /\ text \notin Blanks =>
               Begun(g, Within(g, j)) = Begun(e, Within(e, j)) \o <<"text", text>>
      BY ONLY <2>1, <2>2, <3>1, <3>2, TextTokens
    <3>4. QED
      BY <2>4, <3>1, <3>2, <3>3
  <2> HIDE DEF f
  <2>6. LastMore(open, open', x, n)
    BY <1>1, <1>2, <2>1, <2>3, <2>5 DEF LastMore
  <2>7. Opened(open', n) = Opened(open, n) \o x /\ \A i \in DOMAIN open' : Tokened(open'[i], n - i)
    BY <2>6, LastSaysMore
  <2>8. Len(open') = Len(open)
    BY <1>1, <2>3, LastChanged DEF Elements
  <2>9. Len(open') < at'
    BY <1>1, <2>8
  <2>10. QED
    BY <1>1, <1>2, <1>3, <2>7, <2>9 DEF Reading
<1>4. CASE doc[at].t \in {"comment", "space"} /\ UNCHANGED <<stage, declared, open, root>>
  BY <1>1, <1>4, SkippingReads DEF ReadContent
<1>5. CASE Refuse
  BY <1>1, <1>5, RefusedReads
<1>6. QED
  <2>1. \/ doc[at].t \in {"text", "space"} /\ Fresh
        \/ doc[at].t \in {"comment", "space"} /\ ~Fresh
        \/ doc[at].t = "comment" /\ Fresh
        \/ ~(\/ doc[at].t \in {"text", "space"} /\ Fresh
             \/ doc[at].t \in {"comment", "space"} /\ ~Fresh
             \/ doc[at].t = "comment" /\ Fresh)
    OBVIOUS
  <2>2. QED
    BY <1>3, <1>4, <1>5, <2>1 DEF ReadContent

LEMMA TableReads ==
    ASSUME TableTyped, Reading, TableStep, tries' = tries
    PROVE  Reading'
<1>1. CASE ReadProlog
  <2>1. CASE Refuse
    BY <1>1, <2>1, RefusedReads DEF ReadProlog
  <2>2. CASE doc[at].t \in {"space", "comment", "decl"} /\ UNCHANGED <<stage, open, root>>
    BY <1>1, <2>2, SkippingReads DEF ReadProlog
  <2>3. QED
    BY <1>1, <2>1, <2>2 DEF ReadProlog
<1>2. CASE ReadEpilog
  <2>1. CASE Refuse
    BY <1>2, <2>1, RefusedReads DEF ReadEpilog
  <2>2. CASE doc[at].t \in {"space", "comment"} /\ UNCHANGED <<stage, open, root>>
    BY <1>2, <2>2, SkippingReads DEF ReadEpilog
  <2>3. QED
    BY <1>2, <2>1, <2>2 DEF ReadEpilog
<1>3. CASE ReadEnd \/ TakeChild \/ TakeLast
  <2>1. /\ UNCHANGED <<doc, at, open, root>> /\ stage \in {"prolog", "body", "epilog", "entries"}
        /\ \/ stage' = "refused"
           \/ stage = "epilog" /\ stage' = "entries" /\ at = Len(doc) + 1
           \/ stage = "entries" /\ stage' \in {"entries", "parsed"}
    BY <1>3 DEF ReadEnd, TakeChild, TakeLast
  <2>2. Prefix(at - 1)' = Prefix(at - 1)
    BY <2>1 DEF Prefix, SignificantAt, Resolved
  <2>3. QED
    BY <2>1, <2>2 DEF Reading
<1>4. QED
  BY <1>1, <1>2, <1>3, OpenReads, CloseReads, ContentReads DEF TableStep, ReadToken

LEMMA ReadingSafe ==
    ASSUME TableTyped, Reading, [Next]_vars
    PROVE  Reading'
<1>1. CASE ParseTable
  BY <1>1, TableReads DEF ParseTable
<1>2. CASE TryNextTable
  <2>1. /\ at' = 1 /\ stage' = "prolog" /\ open' = <<>> /\ root' = NoElement
    BY <1>2 DEF TryNextTable
  <2>2. DOMAIN open' = {}
    BY <2>1
  <2>3. Prefix(at - 1)' = <<>>
    <3>1. 1..(at' - 1) = {}
      BY <2>1
    <3>2. [i \in 1..(at' - 1) |-> SignificantAt(i)'] = <<>>
      BY <3>1
    <3>3. QED
      BY <3>2, FlattenNone DEF Prefix
  <2>4. QED
    BY <2>1, <2>2, <2>3 DEF Reading
<1>3. CASE UNCHANGED <<tableVars, tries>>
  <2>1. UNCHANGED <<doc, at, stage, open, root>>
    BY <1>3 DEF tableVars
  <2>2. Prefix(at - 1)' = Prefix(at - 1) /\ Fresh' = Fresh /\ Inner' = Inner
    BY <2>1 DEF Prefix, SignificantAt, Resolved, Fresh, Inner
  <2>3. QED
    BY <2>1, <2>2 DEF Reading
<1>4. QED
  BY <1>1, <1>2, <1>3, TableAlone

LEMMA ReadingInitially == Init => Reading
<1> SUFFICES ASSUME Init PROVE Reading
  OBVIOUS
<1>1. at = 1 /\ stage = "prolog" /\ open = <<>> /\ root = NoElement
  BY DEF Init, TableInit
<1>2. DOMAIN open = {} /\ at - 1 = 0
  BY <1>1
<1>3. QED
  BY <1>1, <1>2, NoPrefix DEF Reading

LEMMA ReadingTells == TableTyped /\ Reading => TreeIsFaithful
<1> SUFFICES ASSUME TableTyped, Reading, stage \in {"entries", "parsed"}
             PROVE  Tokens(root, Len(doc)) = Significant
  BY DEF TreeIsFaithful
<1>1. Tokens(root, Len(doc)) = Prefix(at - 1) /\ at = Len(doc) + 1
  BY DEF Reading
<1>2. DOMAIN doc = 1..Len(doc) /\ Len(doc) \in Nat
  BY TableAssumption, LenProperties DEF TableTyped
<1>3. at - 1 = Len(doc)
  BY <1>1, <1>2
<1>4. QED
  BY <1>1, <1>2, <1>3 DEF Prefix, Significant

-----------------------------------------------------------------------------
(* The keyboard *)

\* A combination that goes down was up, and is counted.
LEMMA KeyMovesCounts ==
    KeysTyped /\ KeyMoves =>
      \E i \in 1..3 :
         /\ down' = [down EXCEPT ![i] = ~down[i]]
         /\ \/ down[i] /\ presses' = presses
            \/ /\ ~down[i] /\ presses[1] + presses[2] + presses[3] < MaxPresses
               /\ presses' = [presses EXCEPT ![i] = presses[i] + 1]
  BY DEF KeyMoves

\* A look at a combination counts a firing only where the last look saw it up, and
\* remembers what it saw.
LEMMA LookCounts ==
    ASSUME NEW i \in 1..3, KeysTyped, LookAtHotkey(i)
    PROVE  /\ UNCHANGED <<down, presses>>
           /\ \/ fired' = fired /\ prev' \in {prev, [prev EXCEPT ![i] = down[i]]}
              \/ /\ down[i] /\ ~prev[i]
                 /\ fired' = [fired EXCEPT ![i] = fired[i] + 1]
                 /\ prev' = [prev EXCEPT ![i] = TRUE]
<1>1. CASE build = "windows" /\ ComboDown(i) /\ ~prev[i]
  <2>1. HasCombo(i) /\ down[i] /\ down[i] = TRUE
    BY <1>1 DEF ComboDown, KeysTyped
  <2>2. fired' = [fired EXCEPT ![i] = fired[i] + 1]
    BY <1>1 DEF LookAtHotkey
  <2>3. QED
    BY <1>1, <2>1, <2>2 DEF LookAtHotkey
<1>2. CASE ~(build = "windows" /\ ComboDown(i) /\ ~prev[i])
  BY <1>2 DEF LookAtHotkey
<1>3. QED
  BY <1>1, <1>2

\* Nothing else touches the keys.
LEMMA KeysStep ==
    [Next]_vars => KeyMoves \/ (\E i \in 1..3 : LookAtHotkey(i)) \/ UNCHANGED keyVars
<1> SUFFICES ASSUME [Next]_vars, ~KeyMoves, ~\E i \in 1..3 : LookAtHotkey(i)
             PROVE  UNCHANGED keyVars
  OBVIOUS
<1>1. CASE ParseTable \/ TryNextTable \/ NoTable \/ Attach \/ Resolve \/ FallBack \/ Unresolved
  BY <1>1 DEF ParseTable, TryNextTable, NoTable, Attach, Resolve, FallBack, Unresolved
<1>2. CASE TestStart \/ TestHealth \/ TestAmmo \/ TestHeight \/ TestJump \/ TestLand \/ TestRestore
  BY <1>2 DEF TestStart, TestHealth, TestAmmo, TestHeight, TestJump, TestLand, TestRestore, Still
<1>3. CASE Run \/ LineTest \/ ReadLine \/ StopPolling \/ PollKey \/ Tick
  BY <1>3 DEF Run, LineTest, ReadLine, StopPolling, PollKey, Tick, Close, Still
<1>4. CASE Interrupt \/ FreezeWrites \/ GamePlays
  BY <1>4 DEF Interrupt, FreezeWrites, GamePlays
<1>5. CASE UNCHANGED vars
  BY <1>5 DEF vars
<1>6. QED
  BY <1>1, <1>2, <1>3, <1>4, <1>5 DEF Next

LEMMA KeysSafe == KeysTyped /\ [Next]_vars => KeysTyped'
<1> SUFFICES ASSUME KeysTyped, [Next]_vars
             PROVE  KeysTyped'
  OBVIOUS
<1>1. CASE KeyMoves
  <2>1. prev' = prev /\ fired' = fired
    BY <1>1 DEF KeyMoves
  <2>2. PICK i \in 1..3 :
          /\ down' = [down EXCEPT ![i] = ~down[i]]
          /\ \/ down[i] /\ presses' = presses
             \/ /\ ~down[i] /\ presses[1] + presses[2] + presses[3] < MaxPresses
                /\ presses' = [presses EXCEPT ![i] = presses[i] + 1]
    BY <1>1, KeyMovesCounts
  <2>3. down' \in [1..3 -> BOOLEAN]
    BY <2>2 DEF KeysTyped
  <2>4. CASE presses' = presses
    BY <2>1, <2>3, <2>4 DEF KeysTyped
  <2>5. CASE /\ presses[1] + presses[2] + presses[3] < MaxPresses
             /\ presses' = [presses EXCEPT ![i] = presses[i] + 1]
    <3>1. presses[1] \in Nat /\ presses[2] \in Nat /\ presses[3] \in Nat /\ presses[i] \in Nat
      BY DEF KeysTyped
    <3>2. presses' \in [1..3 -> Nat]
      BY <2>5, <3>1 DEF KeysTyped
    <3>3. presses'[1] + presses'[2] + presses'[3] = presses[1] + presses[2] + presses[3] + 1
      <4>1. i = 1 \/ i = 2 \/ i = 3
        OBVIOUS
      <4>2. \A j \in 1..3 : presses'[j] = IF j = i THEN presses[i] + 1 ELSE presses[j]
        BY <2>5 DEF KeysTyped
      <4>3. QED
        BY <3>1, <4>1, <4>2
    <3>4. QED
      BY <2>1, <2>3, <2>5, <3>1, <3>2, <3>3, TrainerAssumption DEF KeysTyped
  <2>6. QED
    BY <2>2, <2>4, <2>5
<1>2. ASSUME NEW i \in 1..3, LookAtHotkey(i)
      PROVE  KeysTyped'
  <2>1. down' = down /\ presses' = presses /\ down[i] \in BOOLEAN
    BY <1>2, LookCounts DEF KeysTyped
  <2>2. fired' \in [1..3 -> Nat]
    BY <1>2, LookCounts DEF KeysTyped
  <2>3. prev' \in [1..3 -> BOOLEAN]
    BY <1>2, <2>1, LookCounts DEF KeysTyped
  <2>4. QED
    BY <2>1, <2>2, <2>3 DEF KeysTyped
<1>3. CASE UNCHANGED keyVars
  BY <1>3 DEF KeysTyped, keyVars
<1>4. QED
  BY <1>1, <1>2, <1>3, KeysStep

\* A combination that is down and has not been looked at since is one press ahead.
FiredBehind ==
    \A i \in 1..3 : fired[i] + (IF down[i] /\ ~prev[i] THEN 1 ELSE 0) <= presses[i]

LEMMA FiredSafe == KeysTyped /\ FiredBehind /\ [Next]_vars => FiredBehind'
<1> SUFFICES ASSUME KeysTyped, FiredBehind, [Next]_vars, NEW j \in 1..3
             PROVE  fired'[j] + (IF down'[j] /\ ~prev'[j] THEN 1 ELSE 0) <= presses'[j]
  BY DEF FiredBehind
<1>1. /\ fired[j] \in Nat /\ presses[j] \in Nat /\ down[j] \in BOOLEAN /\ prev[j] \in BOOLEAN
      /\ fired[j] + (IF down[j] /\ ~prev[j] THEN 1 ELSE 0) <= presses[j]
  BY DEF KeysTyped, FiredBehind
<1>2. CASE KeyMoves
  <2>1. prev' = prev /\ fired' = fired
    BY <1>2 DEF KeyMoves
  <2>2. PICK i \in 1..3 :
          /\ down' = [down EXCEPT ![i] = ~down[i]]
          /\ \/ down[i] /\ presses' = presses
             \/ /\ ~down[i] /\ presses[1] + presses[2] + presses[3] < MaxPresses
                /\ presses' = [presses EXCEPT ![i] = presses[i] + 1]
    BY <1>2, KeyMovesCounts
  <2>3. CASE i = j
    <3>1. down'[j] = ~down[j]
      BY <2>2, <2>3 DEF KeysTyped
    <3>2. down[j] => presses'[j] = presses[j]
      BY <2>2, <2>3
    <3>3. ~down[j] => presses'[j] = presses[j] + 1
      BY <2>2, <2>3 DEF KeysTyped
    <3>4. QED
      BY <1>1, <2>1, <3>1, <3>2, <3>3
  <2>4. CASE i # j
    <3>1. down'[j] = down[j] /\ presses'[j] = presses[j]
      BY <2>2, <2>4 DEF KeysTyped
    <3>2. QED
      BY <1>1, <2>1, <3>1
  <2>5. QED
    BY <2>3, <2>4
<1>3. ASSUME NEW i \in 1..3, LookAtHotkey(i)
      PROVE  fired'[j] + (IF down'[j] /\ ~prev'[j] THEN 1 ELSE 0) <= presses'[j]
  <2>1. down' = down /\ presses' = presses
    BY <1>3, LookCounts
  <2>2. CASE fired' = fired /\ prev' \in {prev, [prev EXCEPT ![i] = down[i]]}
    <3>1. prev'[j] = prev[j] \/ prev'[j] = down[j]
      BY <2>2 DEF KeysTyped
    <3>2. QED
      BY <1>1, <2>1, <2>2, <3>1
  <2>3. CASE /\ down[i] /\ ~prev[i]
             /\ fired' = [fired EXCEPT ![i] = fired[i] + 1]
             /\ prev' = [prev EXCEPT ![i] = TRUE]
    <3>1. i = j => fired'[j] = fired[j] + 1 /\ prev'[j] = TRUE
      BY <2>3 DEF KeysTyped
    <3>2. i # j => fired'[j] = fired[j] /\ prev'[j] = prev[j]
      BY <2>3 DEF KeysTyped
    <3>3. QED
      BY <1>1, <2>1, <2>3, <3>1, <3>2
  <2>4. QED
    BY <1>3, <2>2, <2>3, LookCounts
<1>4. CASE UNCHANGED keyVars
  BY <1>1, <1>4 DEF keyVars
<1>5. QED
  BY <1>2, <1>3, <1>4, KeysStep

-----------------------------------------------------------------------------
(* The freeze *)

LEMMA ThreeBindings ==
    /\ Range(Bindings) = {"h", "a", "z"}
    /\ Range(HotkeyPhases) = {"hotkey1", "hotkey2", "hotkey3"}
  BY DEF Range, Bindings, HotkeyPhases

\* A toggle ends the freeze, begins one that was never begun, or leaves none.
Toggled ==
    \/ frozen /\ frozen' = FALSE /\ lock' = "stopped"
    \/ ~frozen /\ frozen' = TRUE /\ lock' = "active"
    \/ ~frozen /\ frozen' = FALSE /\ lock' = lock

LEMMA ToggleEffect == ToggleAmmo => Toggled /\ UNCHANGED <<session, aim>>
  BY DEF ToggleAmmo, Toggled, SetCells

LEMMA TriggerEffect ==
    ASSUME NEW b \in Range(Bindings), Trigger(b)
    PROVE  (Toggled \/ UNCHANGED <<frozen, lock>>) /\ UNCHANGED <<session, aim>>
<1>1. b \in {"h", "a", "z"}
  BY ThreeBindings
<1>2. QED
  BY <1>1, ToggleEffect DEF Trigger, SetCells

\* What a step may do to the freeze.
LEMMA FreezeStep ==
    [Next]_vars =>
      \/ UNCHANGED <<frozen, lock>> /\ (phase' = phase \/ (~Over /\ ~Over'))
      \/ frozen' = frozen /\ Over' /\ lock' = (IF lock = "active" THEN "stopped" ELSE lock)
      \/ Toggled /\ phase \in Steady /\ ~Over /\ ~Over'
      \/ lock = "active" /\ lock' \in {"active", "dead"} /\ UNCHANGED <<frozen, phase>>
<1> DEFINE Quiet    == UNCHANGED <<frozen, lock>> /\ (phase' = phase \/ (~Over /\ ~Over'))
           Returned == frozen' = frozen /\ Over' /\ lock' = (IF lock = "active" THEN "stopped" ELSE lock)
           Goal     == \/ Quiet \/ Returned
                       \/ Toggled /\ phase \in Steady /\ ~Over /\ ~Over'
                       \/ lock = "active" /\ lock' \in {"active", "dead"} /\ UNCHANGED <<frozen, phase>>
<1> SUFFICES ASSUME [Next]_vars PROVE Goal
  OBVIOUS
<1>1. CASE ParseTable \/ TryNextTable \/ Interrupt \/ GamePlays \/ KeyMoves
  BY <1>1 DEF ParseTable, TryNextTable, Interrupt, GamePlays, KeyMoves
<1>2. CASE NoTable \/ Unresolved
  BY <1>2 DEF NoTable, Unresolved, Return, Go, Over
<1>3. CASE Attach \/ Resolve \/ FallBack \/ Run
  BY <1>3 DEF Attach, Resolve, FallBack, Run, Go, Over
<1>4. CASE TestStart \/ TestHealth \/ TestAmmo
  BY <1>4, ToggleEffect DEF TestStart, TestHealth, TestAmmo, Return, Go, Over, Steady
<1>5. CASE TestHeight \/ TestJump \/ TestLand \/ TestRestore
  BY <1>5 DEF TestHeight, TestJump, TestLand, TestRestore, Return, Go, Over
<1>6. CASE LineTest \/ StopPolling
  BY <1>6 DEF LineTest, StopPolling, Close, Return, Go, Over
<1>7. CASE ReadLine
  BY <1>7, TriggerEffect DEF ReadLine, Close, Return, Go, Over, Steady
<1>8. CASE PollKey
  BY <1>8, TriggerEffect DEF PollKey, Return, Go, Over, Steady
<1>9. ASSUME NEW i \in 1..3, LookAtHotkey(i)
      PROVE  Goal
  <2>1. i = 1 \/ i = 2 \/ i = 3
    OBVIOUS
  <2>2. phase \in Steady /\ ~Over /\ ~Over'
    BY <1>9, <2>1 DEF LookAtHotkey, HotkeyPhases, Go, Over, Steady
  <2>3. Bindings[i] \in Range(Bindings)
    BY <2>1, ThreeBindings DEF Bindings
  <2>4. Toggled \/ UNCHANGED <<frozen, lock>>
    BY <1>9, <2>3, TriggerEffect DEF LookAtHotkey
  <2>5. QED
    BY <2>2, <2>4
<1>10. CASE Tick
  BY <1>10 DEF Tick, Go, Over
<1>11. CASE FreezeWrites
  BY <1>11 DEF FreezeWrites
<1>12. CASE UNCHANGED vars
  BY <1>12 DEF vars
<1>13. QED
  BY <1>1, <1>2, <1>3, <1>4, <1>5, <1>6, <1>7, <1>8, <1>9, <1>10, <1>11, <1>12 DEF Next

LEMMA FreezeSafe == Freezing /\ [Next]_vars => Freezing'
<1> SUFFICES ASSUME Freezing, [Next]_vars
             PROVE  Freezing'
  OBVIOUS
<1>1. CASE UNCHANGED <<frozen, lock>> /\ (phase' = phase \/ (~Over /\ ~Over'))
  BY <1>1 DEF Freezing, FreezeFollowsTheToggle, Over
<1>2. CASE frozen' = frozen /\ Over' /\ lock' = (IF lock = "active" THEN "stopped" ELSE lock)
  BY <1>2 DEF Freezing, FreezeFollowsTheToggle, Locks
<1>3. CASE Toggled /\ phase \in Steady /\ ~Over /\ ~Over'
  BY <1>3 DEF Freezing, FreezeFollowsTheToggle, Toggled, Locks
<1>4. CASE lock = "active" /\ lock' \in {"active", "dead"} /\ UNCHANGED <<frozen, phase>>
  BY <1>4 DEF Freezing, FreezeFollowsTheToggle, Over, Locks
<1>5. QED
  BY <1>1, <1>2, <1>3, <1>4, FreezeStep

-----------------------------------------------------------------------------
(* The addresses *)

\* The session and the addresses are settled before the trainer takes commands.
LEMMA AimStep ==
    [Next]_vars =>
      \/ Attach \/ Resolve \/ FallBack
      \/ UNCHANGED <<session, aim>> /\ (phase' \in Steady => phase \in Steady)
<1> DEFINE Kept == UNCHANGED <<session, aim>> /\ (phase' \in Steady => phase \in Steady)
<1> SUFFICES ASSUME [Next]_vars, ~Attach, ~Resolve, ~FallBack PROVE Kept
  OBVIOUS
<1>1. CASE ParseTable \/ TryNextTable \/ Interrupt \/ GamePlays \/ KeyMoves
  BY <1>1 DEF ParseTable, TryNextTable, Interrupt, GamePlays, KeyMoves, memVars
<1>2. CASE NoTable \/ Unresolved
  BY <1>2 DEF NoTable, Unresolved, Return, Go, memVars, Steady
<1>3. CASE TestStart \/ TestHealth \/ TestAmmo \/ TestHeight \/ TestJump \/ TestLand \/ TestRestore
  BY <1>3, ToggleEffect
     DEF TestStart, TestHealth, TestAmmo, TestHeight, TestJump, TestLand, TestRestore, SetCells, memVars, Steady
<1>4. CASE Run \/ LineTest \/ StopPolling
  BY <1>4 DEF Run, LineTest, StopPolling, Close, memVars, Steady
<1>5. CASE ReadLine \/ PollKey
  BY <1>5, TriggerEffect DEF ReadLine, PollKey, Close, memVars, Steady
<1>6. ASSUME NEW i \in 1..3, LookAtHotkey(i)
      PROVE  Kept
  <2>1. i = 1 \/ i = 2 \/ i = 3
    OBVIOUS
  <2>2. phase \in Steady
    BY <1>6, <2>1 DEF LookAtHotkey, HotkeyPhases, Steady
  <2>3. Bindings[i] \in Range(Bindings)
    BY <2>1, ThreeBindings DEF Bindings
  <2>4. QED
    BY <1>6, <2>2, <2>3, TriggerEffect DEF LookAtHotkey, memVars
<1>7. CASE Tick \/ FreezeWrites
  BY <1>7 DEF Tick, FreezeWrites, SetCells, memVars, Steady
<1>8. CASE UNCHANGED vars
  BY <1>8 DEF vars, memVars
<1>9. QED
  BY <1>1, <1>2, <1>3, <1>4, <1>5, <1>6, <1>7, <1>8 DEF Next

LEMMA WithArmorKeeps ==
    ASSUME NEW cells, NEW player, NEW a, a = Aimed(cells, player)
    PROVE  /\ WithArmor(a).health = a.health /\ WithArmor(a).ammo = a.ammo
           /\ WithArmor(a).z = a.z /\ WithArmor(a).player = a.player
           /\ Located(WithArmor(a)) <=> Located(a)
<1>1. /\ WithArmor(a).health = a.health /\ WithArmor(a).ammo = a.ammo
      /\ WithArmor(a).z = a.z /\ WithArmor(a).player = a.player
  BY DEF WithArmor, Aimed
<1>2. QED
  BY <1>1 DEF Located

LEMMA AimSafe == AimIsKnown /\ [Next]_vars => AimIsKnown'
<1> SUFFICES ASSUME AimIsKnown, [Next]_vars
             PROVE  AimIsKnown'
  OBVIOUS
<1>1. CASE Attach
  BY <1>1 DEF Attach, AimIsKnown, Go, Steady
<1>2. CASE Resolve
  <2>1. UNCHANGED <<session, plays>>
    BY <1>2 DEF Resolve
  <2> DEFINE a     == Aimed(Cells, 0)
             valid == Located(a) /\ {a.health, a.ammo, a.z} \subseteq DOMAIN Cells
  <2>2. /\ aim' = IF valid THEN WithArmor(a) ELSE a
        /\ phase' = IF valid THEN "ready" ELSE "fallback"
    BY <1>2 DEF Resolve, Go
  <2>3. CASE valid
    <3>1. Located(WithArmor(a))
      BY <2>3, WithArmorKeeps
    <3>2. QED
      BY <2>1, <2>2, <2>3, <3>1 DEF AimIsKnown, Located
  <2>4. CASE ~valid
    BY <2>1, <2>2, <2>4 DEF AimIsKnown, Steady
  <2>5. QED
    BY <2>3, <2>4
<1>3. CASE FallBack
  <2>1. session' = "simulated" /\ plays' = plays
    BY <1>3 DEF FallBack
  <2> DEFINE a == Aimed(Simulation, aim.player)
  <2>2. /\ aim' = WithArmor(a)
        /\ phase' = IF Located(a) THEN "ready" ELSE "unresolved"
    BY <1>3 DEF FallBack, Go
  <2>3. Located(WithArmor(a)) <=> Located(a)
    BY WithArmorKeeps
  <2>4. phase' \in Steady => Located(a)
    BY <2>2 DEF Steady
  <2> HIDE DEF a
  <2>5. QED
    BY <2>1, <2>2, <2>3, <2>4 DEF AimIsKnown, Located
<1>4. CASE UNCHANGED <<session, aim>> /\ (phase' \in Steady => phase \in Steady)
  <2>1. plays' \in 0..MaxPlays
    <3>1. plays' = plays \/ GamePlays
      BY DEF Next, vars, ParseTable, TryNextTable, NoTable, Attach, Resolve, FallBack, Unresolved,
             TestStart, TestHealth, TestAmmo, TestHeight, TestJump, TestLand, TestRestore, Run, LineTest, ReadLine,
             Close, LookAtHotkey, StopPolling, PollKey, Tick, Interrupt, FreezeWrites,
             KeyMoves, Still
    <3>2. QED
      BY <3>1, TrainerAssumption DEF GamePlays, AimIsKnown
  <2>2. QED
    BY <1>4, <2>1 DEF AimIsKnown, Located
<1>5. QED
  BY <1>1, <1>2, <1>3, <1>4, AimStep

-----------------------------------------------------------------------------
(* The memory *)

Early   == {"table", "resolve", "fallback", "unresolved"}
Testing == {"test_health", "test_ammo", "test_height", "test_jump", "test_land",
             "test_restore"}

\* All that the trainer means to write.
Targets == Aims \cup IF aim.player = 0 THEN {} ELSE Ammunition

\* Before it takes commands the trainer has written nothing: what it resolves in is
\* the game's memory as the game has it, or the simulation as it is made.
Placed ==
    /\ phase \in Early \cup Steady \cup {"exit"}
    /\ game = [cells |-> game.cells, base |-> game.base, alive |-> game.alive]
    /\ phase \in Early => lock = "none" /\ game.cells \in [DOMAIN game.cells -> Nat]
    /\ phase \in Steady \cup {"resolve", "fallback"} => session # "none"
    /\ phase = "table" => session = "none"
    /\ phase \in {"resolve", "fallback"} /\ session = "simulated" => simulated = Simulation
    /\ aim.player \in Nat

\* While the test runs: the state is that of the memory kept, of which nothing is lost
\* unless the game is, and nothing changed but by the game and at the targets.
Tested ==
    phase \in Testing =>
      /\ before.state = PlayerState(before.cells)
      /\ (session = "game" /\ DOMAIN Cells = {}) \/ DOMAIN before.cells \subseteq DOMAIN Cells
      /\ plays = 0 => \A a \in DOMAIN before.cells \ Targets :
                         a \in DOMAIN Cells /\ Cells[a] = before.cells[a]

\* The memory d has the cells of c and perhaps some of as, and differs from c only there.
ChangedAt(c, d, as) ==
    /\ DOMAIN c \subseteq DOMAIN d /\ DOMAIN d \subseteq DOMAIN c \cup as
    /\ session # "simulated" => DOMAIN d = DOMAIN c
    /\ \A a \in DOMAIN c \ as : d[a] = c[a]

LEMMA PutChanges ==
    ASSUME NEW c, NEW as, NEW v, NEW all, as \subseteq all
    PROVE  ChangedAt(c, Put(c, as, v), all)
  BY DEF Put, Store, ChangedAt

LEMMA PutHolds ==
    ASSUME NEW c, NEW as, NEW v
    PROVE  /\ DOMAIN c \subseteq DOMAIN Put(c, as, v)
           /\ \A a \in DOMAIN c : Put(c, as, v)[a] = IF a \in as THEN v ELSE c[a]
  BY DEF Put, Store

LEMMA ChangesCompose ==
    ASSUME NEW c, NEW d, NEW e, NEW as, ChangedAt(c, d, as), ChangedAt(d, e, as)
    PROVE  ChangedAt(c, e, as)
  BY DEF ChangedAt

LEMMA ChangesNothing ==
    ASSUME NEW c, NEW as
    PROVE  ChangedAt(c, c, as)
  BY DEF ChangedAt

LEMMA SimulationType == Simulation \in [DOMAIN Simulation -> Nat]
<1>1. ASSUME NEW c, NEW as, NEW v \in Nat, c \in [DOMAIN c -> Nat]
      PROVE  Store(c, as, v) \in [DOMAIN Store(c, as, v) -> Nat]
  BY <1>1 DEF Store
<1>2. ASSUME NEW c, c \in [DOMAIN c -> Nat], NEW l, LayoutIsSound(l)
      PROVE  PlayerCells(c, l) \in [DOMAIN PlayerCells(c, l) -> Nat]
  <2>1. l.player \in Nat /\ Rifle \in Nat
    BY <1>2, TrainerAssumption DEF LayoutIsSound
  <2> DEFINE player == Store(c, {l.base + l.pointer}, l.player)
             health == Store(player, {l.player + l.health}, 100)
             armor  == Store(health, {l.player + l.armor}, 50)
             gun    == Store(armor, {l.player + l.gun}, Rifle)
             spare  == Store(gun, {l.player + l.reserve + g : g \in Guns}, 60)
             clips  == Store(spare, {l.player + l.clip + g : g \in Guns}, 20)
  <2>2. player \in [DOMAIN player -> Nat]
    BY <1>1, <1>2, <2>1
  <2> HIDE DEF player
  <2>3. health \in [DOMAIN health -> Nat]
    BY <1>1, <2>2
  <2> HIDE DEF health
  <2>4. armor \in [DOMAIN armor -> Nat]
    BY <1>1, <2>3
  <2> HIDE DEF armor
  <2>5. gun \in [DOMAIN gun -> Nat]
    BY <1>1, <2>1, <2>4
  <2> HIDE DEF gun
  <2>6. spare \in [DOMAIN spare -> Nat]
    BY <1>1, <2>5
  <2> HIDE DEF spare
  <2>7. clips \in [DOMAIN clips -> Nat]
    BY <1>1, <2>6
  <2> HIDE DEF clips
  <2>8. PlayerCells(c, l) = Store(clips, {l.player + l.z}, 4)
    BY DEF PlayerCells, player, health, armor, gun, spare, clips
  <2>9. QED
    BY <1>1, <2>7, <2>8
<1>3. LayoutIsSound(Layouts.win) /\ LayoutIsSound(Layouts.mac)
  BY TrainerAssumption
<1>4. <<>> \in [DOMAIN <<>> -> Nat]
  OBVIOUS
<1>5. PlayerCells(<<>>, Layouts.win) \in [DOMAIN PlayerCells(<<>>, Layouts.win) -> Nat]
  BY <1>2, <1>3, <1>4
<1>6. ASSUME NEW c, c \in [DOMAIN c -> Nat]
      PROVE  WeaponCells(c) \in [DOMAIN WeaponCells(c) -> Nat]
  <2> DEFINE hand == Store(c, {Layouts.win.player + Arms.hand}, Arms.weapon)
             slot == Store(hand, {Arms.weapon + Arms.slot}, Arms.clip)
  <2>1. Arms.weapon \in Nat /\ Arms.clip \in Nat
    BY TrainerAssumption
  <2>2. hand \in [DOMAIN hand -> Nat]
    BY <1>1, <1>6, <2>1
  <2> HIDE DEF hand
  <2>3. slot \in [DOMAIN slot -> Nat]
    BY <1>1, <2>1, <2>2
  <2> HIDE DEF slot
  <2>4. WeaponCells(c) = Store(slot, {Arms.clip}, 30)
    BY DEF WeaponCells, hand, slot
  <2>5. QED
    BY <1>1, <2>3, <2>4
<1>7. QED
  BY <1>2, <1>3, <1>5, <1>6 DEF Simulation

\* The layout is chosen by the table and where it came from.
LEMMA LayoutStays == UNCHANGED <<table, macPath>> => Layout' = Layout
  BY DEF Layout, IsMac, Health, LastCalled, EntriesCalled

LEMMA LayoutSound == LayoutIsSound(Layout)
  BY TrainerAssumption DEF Layout

LEMMA PlayerStateStays ==
    ASSUME NEW c, UNCHANGED <<table, macPath, aim>>
    PROVE  PlayerState(c)' = PlayerState(c)
  BY LayoutStays DEF PlayerState

\* The gun in hand, if one is, is one of the guns.
LEMMA GunInHand ==
    ASSUME NEW c, aim.player # 0, PlayerState(c).gun # -1
    PROVE  /\ PlayerState(c).gun \in Guns
           /\ {aim.player + Layout.clip + PlayerState(c).gun,
               aim.player + Layout.reserve + PlayerState(c).gun} \subseteq Ammunition
<1>1. PlayerState(c).gun \in Guns
  BY DEF PlayerState
<1>2. QED
  BY <1>1 DEF Ammunition

LEMMA HealedChanges == ASSUME NEW c PROVE ChangedAt(c, Healed(c), Targets)
  BY PutChanges DEF Healed, Aims, Targets

LEMMA RefilledChanges == ASSUME NEW c PROVE ChangedAt(c, Refilled(c), Targets)
  BY PutChanges DEF Refilled, Aims, Targets

LEMMA JumpedChanges == ASSUME NEW c PROVE ChangedAt(c, Jumped(c), Targets)
  BY PutChanges, ChangesNothing DEF Jumped, Aims, Targets

LEMMA RestoredChanges ==
    ASSUME NEW c, before.state = PlayerState(before.cells)
    PROVE  ChangedAt(c, Restored(c), Targets)
<1> DEFINE s      == before.state
           health == Put(c, {aim.health}, s.health)
           armor  == Put(health, Armor, s.armor)
           ammo   == Put(armor, {aim.ammo}, s.clip)
           z      == Put(ammo, {aim.z}, s.z)
           clip   == Put(z, {aim.player + Layout.clip + s.gun}, s.clip)
           spare  == Put(clip, {aim.player + Layout.reserve + s.gun}, s.reserve)
<1>1. ChangedAt(c, health, Targets) /\ ChangedAt(health, armor, Targets)
      /\ ChangedAt(armor, ammo, Targets) /\ ChangedAt(ammo, z, Targets)
  BY PutChanges DEF Aims, Targets
<1>2. ASSUME aim.player # 0, s.gun # -1
      PROVE  ChangedAt(z, clip, Targets) /\ ChangedAt(clip, spare, Targets)
  BY <1>2, GunInHand, PutChanges DEF Targets
<1>3. Restored(c) = IF aim.player = 0 \/ s.gun = -1 THEN z ELSE spare
  BY DEF Restored
<1> HIDE DEF s, health, armor, ammo, z, clip, spare
<1>4. ChangedAt(c, z, Targets)
  BY <1>1, ChangesCompose
<1>5. QED
  BY <1>2, <1>3, <1>4, ChangesCompose

\* The memory of the session is written, at the targets.
Wrote == \E d : SetCells(d) /\ ChangedAt(Cells, d, Targets)

LEMMA ToggleWrites == ToggleAmmo => Wrote
  BY RefilledChanges, ChangesNothing DEF ToggleAmmo, Wrote

LEMMA TriggerWrites ==
    ASSUME NEW b \in Range(Bindings), Trigger(b)
    PROVE  Wrote
<1>1. b \in {"h", "a", "z"}
  BY ThreeBindings
<1>2. CASE b = "h"
  BY <1>2, HealedChanges DEF Trigger, Wrote
<1>3. CASE b = "a"
  BY <1>3, ToggleWrites DEF Trigger
<1>4. CASE b = "z"
  BY <1>4, JumpedChanges DEF Trigger, Wrote
<1>5. QED
  BY <1>1, <1>2, <1>3, <1>4

\* What a step may do to the memories.
LEMMA MemoryStep ==
    Placed /\ Tested /\ Freezing /\ [Next]_vars =>
      \/ Attach \/ FallBack \/ GamePlays
      \/ UNCHANGED <<game, simulated, session, plays>>
      \/ phase \in Steady /\ Wrote /\ plays' = plays
<1> DEFINE Nothing == UNCHANGED <<game, simulated, session, plays>>
           Written == phase \in Steady /\ Wrote /\ plays' = plays
<1> SUFFICES ASSUME Placed, Tested, Freezing, [Next]_vars, ~Attach, ~FallBack, ~GamePlays
             PROVE  Nothing \/ Written
  OBVIOUS
<1>1. CASE ParseTable \/ TryNextTable \/ NoTable \/ Resolve \/ Unresolved
  BY <1>1 DEF ParseTable, TryNextTable, NoTable, Resolve, Unresolved, memVars
<1>2. CASE TestStart
  <2> DEFINE c == Put(Cells, {aim.health}, 35)
  <2>1. SetCells(Healed(c)) /\ phase = "ready" /\ plays' = plays
    BY <1>2 DEF TestStart, Still
  <2>2. ChangedAt(Cells, Healed(c), Targets)
    BY PutChanges, HealedChanges, ChangesCompose DEF Aims, Targets
  <2> HIDE DEF c
  <2>3. QED
    BY <2>1, <2>2 DEF Wrote, Steady
<1>3. CASE TestHealth \/ TestAmmo
  BY <1>3, ToggleWrites DEF TestHealth, TestAmmo, Still, Steady, memVars
<1>4. CASE TestJump
  BY <1>4, JumpedChanges DEF TestJump, Still, Steady, Wrote
<1>14. CASE TestHeight \/ TestLand
  BY <1>14 DEF TestHeight, TestLand, Still, memVars
<1>5. CASE TestRestore
  <2>1. before.state = PlayerState(before.cells)
    BY <1>5 DEF TestRestore, Tested, Testing
  <2>2. ChangedAt(Cells, Restored(Cells), Targets)
    BY <2>1, RestoredChanges
  <2>3. QED
    BY <1>5, <2>2, ChangesNothing DEF TestRestore, Still, Steady, Wrote
<1>6. CASE Run \/ LineTest \/ StopPolling
  BY <1>6 DEF Run, LineTest, StopPolling, Close, Still, memVars
<1>7. CASE ReadLine \/ PollKey
  BY <1>7, TriggerWrites DEF ReadLine, PollKey, Close, Still, Steady, memVars
<1>8. ASSUME NEW i \in 1..3, LookAtHotkey(i)
      PROVE  Nothing \/ Written
  <2>1. i = 1 \/ i = 2 \/ i = 3
    OBVIOUS
  <2>2. phase \in Steady /\ plays' = plays
    BY <1>8, <2>1 DEF LookAtHotkey, HotkeyPhases, Steady
  <2>3. Bindings[i] \in Range(Bindings)
    BY <2>1, ThreeBindings DEF Bindings
  <2>4. QED
    BY <1>8, <2>2, <2>3, TriggerWrites DEF LookAtHotkey, memVars
<1>9. CASE Tick
  <2> DEFINE s    == PlayerState(Cells)
             fill == frozen /\ aim.player # 0 /\ s.gun # -1
             d    == Put(Cells, {aim.player + Layout.clip + s.gun}, 999)
  <2>1. phase \in Steady /\ plays' = plays
    BY <1>9 DEF Tick, Still, Steady
  <2>2. UNCHANGED memVars \/ (fill /\ SetCells(d)) \/ SetCells(Cells)
    BY <1>9 DEF Tick
  <2>3. fill => ChangedAt(Cells, d, Targets)
    BY GunInHand, PutChanges DEF Targets
  <2> HIDE DEF d, fill
  <2>4. QED
    BY <2>1, <2>2, <2>3, ChangesNothing DEF memVars, Wrote
<1>10. CASE FreezeWrites
  <2>1. phase \in Steady
    BY <1>10 DEF FreezeWrites, Placed, Freezing, FreezeFollowsTheToggle, Over
  <2>2. ChangedAt(Cells, Put(Cells, {aim.ammo}, 999), Targets)
    BY PutChanges DEF Aims, Targets
  <2>3. QED
    BY <1>10, <2>1, <2>2 DEF FreezeWrites, Wrote, memVars
<1>11. CASE Interrupt \/ KeyMoves
  BY <1>11 DEF Interrupt, KeyMoves, memVars
<1>12. CASE UNCHANGED vars
  BY <1>12 DEF vars, memVars
<1>13. QED
  BY <1>1, <1>2, <1>3, <1>4, <1>5, <1>6, <1>7, <1>8, <1>9, <1>10, <1>11, <1>12,
     <1>14 DEF Next

\* Where the trainer may go before it takes commands.
LEMMA EarlyStep ==
    [Next]_vars =>
      \/ Attach \/ Resolve \/ FallBack
      \/ phase' = phase \/ phase' \in Steady \cup {"exit"}
<1> SUFFICES ASSUME [Next]_vars, ~Attach, ~Resolve, ~FallBack
             PROVE  phase' = phase \/ phase' \in Steady \cup {"exit"}
  OBVIOUS
<1>1. CASE ParseTable \/ TryNextTable \/ Interrupt \/ FreezeWrites \/ GamePlays \/ KeyMoves
  BY <1>1 DEF ParseTable, TryNextTable, Interrupt, FreezeWrites, GamePlays, KeyMoves
<1>2. CASE NoTable \/ Unresolved
  BY <1>2 DEF NoTable, Unresolved, Return, Go
<1>3. CASE TestStart \/ TestHealth \/ TestAmmo \/ TestHeight \/ TestJump \/ TestLand \/ TestRestore
  BY <1>3 DEF TestStart, TestHealth, TestAmmo, TestHeight, TestJump, TestLand, TestRestore, Return, Go, Steady
<1>4. CASE Run \/ LineTest \/ ReadLine \/ StopPolling \/ PollKey \/ Tick
  BY <1>4 DEF Run, LineTest, ReadLine, StopPolling, PollKey, Tick, Close, Return, Go, Steady
<1>5. ASSUME NEW i \in 1..3, LookAtHotkey(i)
      PROVE  phase' \in Steady
  <2>1. i = 1 \/ i = 2 \/ i = 3
    OBVIOUS
  <2>2. QED
    BY <1>5, <2>1 DEF LookAtHotkey, HotkeyPhases, Go, Steady
<1>6. CASE UNCHANGED vars
  BY <1>6 DEF vars
<1>7. QED
  BY <1>1, <1>2, <1>3, <1>4, <1>5, <1>6 DEF Next

\* The player is looked for among numbers.
LEMMA AimedPlayer ==
    ASSUME NEW c, c \in [DOMAIN c -> Nat], NEW p \in Nat
    PROVE  Aimed(c, p).player \in Nat /\ WithArmor(Aimed(c, p)).player \in Nat
<1>1. Aimed(c, p).player = IF Read(c, BaseOf(Health)) \in {0, NoAddress} THEN p
                           ELSE c[BaseOf(Health)]
  BY DEF Aimed
<1>2. Aimed(c, p).player \in Nat
  BY <1>1 DEF Read
<1>3. QED
  BY <1>2, WithArmorKeeps

LEMMA SetCellsEffect ==
    ASSUME Placed, phase \in Steady, AimIsKnown, NEW d, SetCells(d)
    PROVE  /\ Cells' = d /\ UNCHANGED <<session, aim>>
           /\ game' = [cells |-> game'.cells, base |-> game.base, alive |-> game.alive]
           /\ session # "game" => game' = game
           /\ session # "simulated" => simulated' = simulated
<1>1. UNCHANGED <<session, aim>> /\ session \in {"game", "simulated"}
  BY DEF SetCells, Placed, AimIsKnown
<1>2. CASE session = "game"
  <2>1. game' = [game EXCEPT !.cells = d] /\ simulated' = simulated
    BY <1>2 DEF SetCells
  <2>2. game' = [cells |-> d, base |-> game.base, alive |-> game.alive]
    BY <2>1 DEF Placed
  <2>3. QED
    BY <1>1, <1>2, <2>1, <2>2 DEF Cells
<1>3. CASE session = "simulated"
  BY <1>1, <1>3 DEF SetCells, Cells, Placed
<1>4. QED
  BY <1>1, <1>2, <1>3

LEMMA GameType ==
    ASSUME Placed, GamePlays
    PROVE  /\ game' = [cells |-> game'.cells, base |-> game'.base, alive |-> game'.alive]
           /\ game.cells \in [DOMAIN game.cells -> Nat]
                => game'.cells \in [DOMAIN game'.cells -> Nat]
           /\ session = "game" => DOMAIN game'.cells \in {{}, DOMAIN game.cells}
<1>1. game = [cells |-> game.cells, base |-> game.base, alive |-> game.alive]
  BY DEF Placed
<1>2. CASE game' = [game EXCEPT !.cells = <<>>, !.alive = FALSE]
  <2>1. game' = [cells |-> <<>>, base |-> game.base, alive |-> FALSE]
    BY <1>1, <1>2
  <2>2. QED
    BY <2>1
<1>3. ASSUME NEW a, NEW v \in Nat, a \in DOMAIN game.cells,
             game' = [game EXCEPT !.cells[a] = v]
      PROVE  /\ game' = [cells |-> game'.cells, base |-> game'.base, alive |-> game'.alive]
             /\ game.cells \in [DOMAIN game.cells -> Nat]
                  => game'.cells \in [DOMAIN game'.cells -> Nat]
             /\ DOMAIN game'.cells = DOMAIN game.cells
  <2>1. game' = [cells |-> [game.cells EXCEPT ![a] = v], base |-> game.base,
                 alive |-> game.alive]
    BY <1>1, <1>3
  <2>2. QED
    BY <1>3, <2>1
<1>4. CASE \E w \in {<<aim.player + Layout.health, 60>>, <<aim.player + Layout.gun, 0>>,
                     <<aim.player + Layout.clip + Rifle, 19>>, <<aim.player + Layout.z, 7>>} :
              w[1] \in DOMAIN game.cells /\ game' = [game EXCEPT !.cells[w[1]] = w[2]]
  <2>1. PICK w \in {<<aim.player + Layout.health, 60>>, <<aim.player + Layout.gun, 0>>,
                    <<aim.player + Layout.clip + Rifle, 19>>, <<aim.player + Layout.z, 7>>} :
           w[1] \in DOMAIN game.cells /\ game' = [game EXCEPT !.cells[w[1]] = w[2]]
    BY <1>4
  <2>2. w[2] \in Nat
    BY <2>1
  <2>3. QED
    BY <1>3, <2>1, <2>2
<1>5. QED
  BY <1>2, <1>4 DEF GamePlays

LEMMA PlacedSafe == Placed /\ Tested /\ Freezing /\ AimIsKnown /\ [Next]_vars => Placed'
<1> SUFFICES ASSUME Placed, Tested, Freezing, AimIsKnown, [Next]_vars
             PROVE  Placed'
  OBVIOUS
<1>1. aim'.player \in Nat
  <2>1. CASE Resolve
    <3>1. Cells \in [DOMAIN Cells -> Nat]
      BY <2>1, SimulationType DEF Resolve, Cells, Placed, Early, AimIsKnown
    <3>2. aim' \in {Aimed(Cells, 0), WithArmor(Aimed(Cells, 0))}
      BY <2>1 DEF Resolve
    <3>3. QED
      BY <3>1, <3>2, AimedPlayer
  <2>2. CASE FallBack
    <3>1. aim' = WithArmor(Aimed(Simulation, aim.player))
      BY <2>2 DEF FallBack
    <3>2. QED
      BY <3>1, SimulationType, AimedPlayer DEF Placed
  <2>3. CASE aim' = aim
    BY <2>3 DEF Placed
  <2>4. QED
    BY <2>1, <2>2, <2>3, AimStep DEF Attach
<1>2. CASE Attach \/ Resolve \/ FallBack
  <2>1. UNCHANGED <<game, lock>> /\ phase \in Early
    BY <1>2 DEF Attach, Resolve, FallBack, Early
  <2>2. /\ phase' \in {"resolve", "ready", "fallback", "unresolved"}
        /\ session' # "none"
        /\ phase' = "resolve" /\ session' = "simulated" => simulated' = Simulation
        /\ phase' = "fallback" => UNCHANGED <<session, simulated>> /\ phase = "resolve"
    BY <1>2 DEF Attach, Resolve, FallBack, Go, Placed
  <2>3. QED
    BY <1>1, <2>1, <2>2 DEF Placed, Early, Steady
<1>3. CASE UNCHANGED <<session, aim>> /\ (phase' = phase \/ phase' \in Steady \cup {"exit"})
           /\ (phase' \in Steady => phase \in Steady) /\ ~FallBack /\ ~Attach
  <2>1. phase' \in Early \cup Steady \cup {"exit"} /\ (phase' \in Early => phase' = phase)
    BY <1>3 DEF Placed, Early, Steady
  <2>2. phase' \in Early => lock' = "none"
    BY <1>3, <2>1, FreezeStep DEF Placed, Early, Steady, Over
  <2>3. CASE GamePlays
    BY <1>1, <1>3, <2>1, <2>2, <2>3, GameType DEF Placed, Early, Steady, GamePlays
  <2>4. CASE UNCHANGED <<game, simulated, session, plays>>
    BY <1>1, <1>3, <2>1, <2>2, <2>4 DEF Placed, Early, Steady
  <2>5. CASE phase \in Steady /\ Wrote
    <3>1. game' = [cells |-> game'.cells, base |-> game.base, alive |-> game.alive]
      BY <2>5, SetCellsEffect DEF Wrote
    <3>2. game' = [cells |-> game'.cells, base |-> game'.base, alive |-> game'.alive]
      BY <3>1
    <3>3. phase' \in Steady \cup {"exit"}
      BY <1>3, <2>5
    <3>4. QED
      BY <1>1, <1>3, <2>5, <3>2, <3>3 DEF Placed, Early, Steady
  <2>6. QED
    BY <1>3, <2>3, <2>4, <2>5, MemoryStep
<1>4. QED
  BY <1>2, <1>3, AimStep, EarlyStep

-----------------------------------------------------------------------------
(* The test *)

LEMMA WorldStep == [Next]_vars => phase = "table" \/ UNCHANGED <<table, macPath>>
<1> SUFFICES ASSUME [Next]_vars, phase # "table" PROVE UNCHANGED <<table, macPath>>
  OBVIOUS
<1>1. CASE Resolve \/ FallBack \/ Unresolved
  BY <1>1 DEF Resolve, FallBack, Unresolved, tableVars, worldVars
<1>2. CASE TestStart \/ TestHealth \/ TestAmmo \/ TestHeight \/ TestJump \/ TestLand \/ TestRestore
  BY <1>2 DEF TestStart, TestHealth, TestAmmo, TestHeight, TestJump, TestLand, TestRestore, Still, tableVars, worldVars
<1>3. CASE Run \/ LineTest \/ ReadLine \/ StopPolling \/ PollKey \/ Tick
  BY <1>3 DEF Run, LineTest, ReadLine, StopPolling, PollKey, Tick, Close, Still,
              tableVars, worldVars
<1>4. CASE Interrupt \/ FreezeWrites \/ GamePlays \/ KeyMoves
  BY <1>4 DEF Interrupt, FreezeWrites, GamePlays, KeyMoves, tableVars, worldVars
<1>5. CASE \E i \in 1..3 : LookAtHotkey(i)
  BY <1>5 DEF LookAtHotkey, tableVars, worldVars
<1>6. CASE UNCHANGED vars
  BY <1>6 DEF vars, tableVars, worldVars
<1>7. QED
  BY <1>1, <1>2, <1>3, <1>4, <1>5, <1>6
     DEF Next, ParseTable, TryNextTable, NoTable, Attach

\* The test keeps what it began with, and ends in TestRestore or not at all.
LEMMA TestStep ==
    [Next]_vars =>
      \/ TestStart
      \/ /\ before'.cells = before.cells /\ before'.state = before.state
         /\ phase' \in Testing => phase \in Testing
         /\ phase' = "passed" => TestRestore \/ phase = "passed"
<1> SUFFICES ASSUME [Next]_vars, ~TestStart
             PROVE  /\ before'.cells = before.cells /\ before'.state = before.state
                    /\ phase' \in Testing => phase \in Testing
                    /\ phase' = "passed" => TestRestore \/ phase = "passed"
  OBVIOUS
<1>1. CASE ParseTable \/ TryNextTable \/ Interrupt \/ FreezeWrites \/ GamePlays \/ KeyMoves
  BY <1>1 DEF ParseTable, TryNextTable, Interrupt, FreezeWrites, GamePlays, KeyMoves
<1>2. CASE NoTable \/ Attach \/ Resolve \/ FallBack \/ Unresolved
  BY <1>2 DEF NoTable, Attach, Resolve, FallBack, Unresolved, Return, Go, Testing
<1>3. CASE TestHealth \/ TestAmmo \/ TestHeight \/ TestJump \/ TestLand \/ TestRestore
  BY <1>3 DEF TestHealth, TestAmmo, TestHeight, TestJump, TestLand, TestRestore, Return, Go, Testing
<1>4. CASE Run \/ LineTest \/ ReadLine \/ StopPolling \/ PollKey \/ Tick
  BY <1>4 DEF Run, LineTest, ReadLine, StopPolling, PollKey, Tick, Close, Return, Go, Still,
              Testing
<1>5. ASSUME NEW i \in 1..3, LookAtHotkey(i)
      PROVE  before' = before /\ phase' \in {"hotkey2", "hotkey3", "key"}
  <2>1. i = 1 \/ i = 2 \/ i = 3
    OBVIOUS
  <2>2. QED
    BY <1>5, <2>1 DEF LookAtHotkey, HotkeyPhases, Go
<1>6. CASE UNCHANGED vars
  BY <1>6 DEF vars
<1>7. QED
  BY <1>1, <1>2, <1>3, <1>4, <1>5, <1>6 DEF Next, Testing

LEMMA TargetsStay == UNCHANGED <<table, macPath, aim>> => Targets' = Targets
  BY LayoutStays DEF Targets, Aims, Armor, Ammunition

LEMMA StateStays ==
    ASSUME UNCHANGED <<table, macPath, aim>>, NEW c, before'.cells = c
    PROVE  PlayerState(before.cells)' = PlayerState(c)
  BY LayoutStays DEF PlayerState

LEMMA TestedSafe == Placed /\ Tested /\ Freezing /\ AimIsKnown /\ [Next]_vars => Tested'
<1> SUFFICES ASSUME Placed, Tested, Freezing, AimIsKnown, [Next]_vars, phase' \in Testing
             PROVE  /\ before'.state = PlayerState(before.cells)'
                    /\ \/ session' = "game" /\ DOMAIN Cells' = {}
                       \/ DOMAIN before'.cells \subseteq DOMAIN Cells'
                    /\ plays' = 0 => \A a \in DOMAIN before'.cells \ Targets' :
                                        a \in DOMAIN Cells' /\ Cells'[a] = before'.cells[a]
  BY DEF Tested
<1>1. CASE TestStart
  <2> DEFINE c == Cells
             d == Healed(Put(Cells, {aim.health}, 35))
  <2>1. phase \in Steady /\ SetCells(d) /\ UNCHANGED <<table, macPath>>
    BY <1>1 DEF TestStart, Steady, Still, tableVars, worldVars
  <2>2. before'.cells = c /\ before'.state = PlayerState(c)
    BY <1>1 DEF TestStart
  <2>3. ChangedAt(c, d, Targets)
    BY PutChanges, HealedChanges, ChangesCompose DEF Aims, Targets
  <2> HIDE DEF c, d
  <2>4. Cells' = d /\ aim' = aim
    BY <2>1, SetCellsEffect
  <2>5. Targets' = Targets /\ PlayerState(before.cells)' = PlayerState(c)
    BY <2>1, <2>2, <2>4, TargetsStay, StateStays
  <2>6. QED
    BY <2>2, <2>3, <2>4, <2>5 DEF ChangedAt
<1>2. CASE before'.cells = before.cells /\ before'.state = before.state /\ phase \in Testing
  <2>1. /\ before.state = PlayerState(before.cells)
        /\ (session = "game" /\ DOMAIN Cells = {}) \/ DOMAIN before.cells \subseteq DOMAIN Cells
        /\ plays = 0 => \A a \in DOMAIN before.cells \ Targets :
                           a \in DOMAIN Cells /\ Cells[a] = before.cells[a]
    BY <1>2 DEF Tested
  <2>2. UNCHANGED <<table, macPath, session, aim>> /\ phase \in Steady /\ ~Attach /\ ~FallBack
    BY <1>2, WorldStep, AimStep DEF Attach, Resolve, FallBack, Testing, Steady
  <2>3. Targets' = Targets /\ PlayerState(before.cells)' = PlayerState(before.cells)
    BY <1>2, <2>2, TargetsStay, StateStays
  <2>4. CASE GamePlays
    <3>1. plays' # 0 /\ simulated' = simulated
      BY <2>4, TrainerAssumption DEF GamePlays, AimIsKnown
    <3>2. DOMAIN Cells' \in {{}, DOMAIN Cells} /\ (session # "game" => Cells' = Cells)
      BY <2>2, <2>4, <3>1, GameType DEF Cells
    <3>3. QED
      BY <1>2, <2>1, <2>2, <2>3, <3>1, <3>2
  <2>5. CASE UNCHANGED <<game, simulated, session, plays>>
    BY <1>2, <2>1, <2>2, <2>3, <2>5 DEF Cells
  <2>6. CASE Wrote /\ plays' = plays
    <3>1. PICK d : SetCells(d) /\ ChangedAt(Cells, d, Targets)
      BY <2>6 DEF Wrote
    <3>2. Cells' = d
      BY <2>2, <3>1, SetCellsEffect
    <3>3. QED
      BY <1>2, <2>1, <2>2, <2>3, <2>6, <3>1, <3>2 DEF ChangedAt
  <2>7. QED
    BY <2>2, <2>4, <2>5, <2>6, MemoryStep
<1>3. QED
  BY <1>1, <1>2, TestStep

\* No gun has its clip where its reserve is.
LEMMA Apart ==
    ASSUME aim.player \in Nat, NEW g \in Guns
    PROVE  aim.player + Layout.clip + g # aim.player + Layout.reserve + g
<1>1. /\ Layout.clip \in Nat /\ Layout.reserve \in Nat
      /\ {Layout.clip + x : x \in Guns} \cap {Layout.reserve + x : x \in Guns} = {}
  BY LayoutSound DEF LayoutIsSound
<1>2. g \in Nat /\ Layout.clip + g # Layout.reserve + g
  BY <1>1, TrainerAssumption
<1>3. QED
  BY <1>1, <1>2

\* What is in a cell after the restoration: the last that was written there.
LEMMA RestoredHolds ==
    ASSUME NEW c, NEW a \in DOMAIN c
    PROVE  LET s     == before.state
               armed == aim.player # 0 /\ s.gun # -1
           IN /\ a \in DOMAIN Restored(c)
              /\ Restored(c)[a] =
                   IF armed /\ a = aim.player + Layout.reserve + s.gun THEN s.reserve
                   ELSE IF armed /\ a = aim.player + Layout.clip + s.gun THEN s.clip
                   ELSE IF a = aim.z THEN s.z
                   ELSE IF a = aim.ammo THEN s.clip
                   ELSE IF a \in Armor THEN s.armor
                   ELSE IF a = aim.health THEN s.health
                   ELSE c[a]
<1> DEFINE s      == before.state
           health == Put(c, {aim.health}, s.health)
           armor  == Put(health, Armor, s.armor)
           ammo   == Put(armor, {aim.ammo}, s.clip)
           z      == Put(ammo, {aim.z}, s.z)
           clip   == Put(z, {aim.player + Layout.clip + s.gun}, s.clip)
           spare  == Put(clip, {aim.player + Layout.reserve + s.gun}, s.reserve)
<1>1. a \in DOMAIN health /\ health[a] = IF a = aim.health THEN s.health ELSE c[a]
  BY PutHolds
<1> HIDE DEF health
<1>2. a \in DOMAIN armor /\ armor[a] = IF a \in Armor THEN s.armor ELSE health[a]
  BY <1>1, PutHolds
<1> HIDE DEF armor
<1>3. a \in DOMAIN ammo /\ ammo[a] = IF a = aim.ammo THEN s.clip ELSE armor[a]
  BY <1>2, PutHolds
<1> HIDE DEF ammo
<1>4. a \in DOMAIN z /\ z[a] = IF a = aim.z THEN s.z ELSE ammo[a]
  BY <1>3, PutHolds
<1> HIDE DEF z
<1>5. a \in DOMAIN clip
      /\ clip[a] = IF a = aim.player + Layout.clip + s.gun THEN s.clip ELSE z[a]
  BY <1>4, PutHolds
<1> HIDE DEF clip
<1>6. a \in DOMAIN spare
      /\ spare[a] = IF a = aim.player + Layout.reserve + s.gun THEN s.reserve ELSE clip[a]
  BY <1>5, PutHolds
<1>7. Restored(c) = IF aim.player = 0 \/ s.gun = -1 THEN z ELSE spare
  BY DEF Restored, health, armor, ammo, z, clip, spare
<1> HIDE DEF spare
<1>8. QED
  BY <1>1, <1>2, <1>3, <1>4, <1>5, <1>6, <1>7

\* What the state holds of the memory it was taken from.
LEMMA StateHolds ==
    ASSUME NEW c, aim.player \in Nat, before.state = PlayerState(c)
    PROVE  LET s     == before.state
               clip  == aim.player + Layout.clip + s.gun
               spare == aim.player + Layout.reserve + s.gun
           IN /\ ReadFrom.health \in DOMAIN c => s.health = c[ReadFrom.health]
              /\ aim.player # 0 /\ ReadFrom.armor \in DOMAIN c => s.armor = c[ReadFrom.armor]
              /\ ReadFrom.z \in DOMAIN c => s.z = c[ReadFrom.z]
              /\ ReadFrom.ammo \in DOMAIN c => s.clip = c[ReadFrom.ammo]
              /\ aim.player # 0 /\ s.gun # -1 =>
                   /\ s.gun \in Guns
                   /\ clip \in DOMAIN c => s.clip = c[clip]
                   /\ spare \in DOMAIN c => s.reserve = c[spare]
<1> DEFINE s == before.state
<1>1. Layout.clip \in Nat /\ Layout.reserve \in Nat
  BY LayoutSound DEF LayoutIsSound
<1>2. s.gun \in Guns => /\ aim.player + (Layout.clip + s.gun) = aim.player + Layout.clip + s.gun
                        /\ aim.player + (Layout.reserve + s.gun)
                             = aim.player + Layout.reserve + s.gun
  BY <1>1, TrainerAssumption
<1>3. CASE aim.player = 0
  <2>1. /\ s.health = ReadOr0(c, aim.health) /\ s.z = ReadOr0(c, aim.z)
        /\ s.clip = ReadOr0(c, aim.ammo)
    BY <1>3 DEF PlayerState
  <2>2. QED
    BY <1>3, <2>1 DEF ReadOr0, ReadFrom
<1>4. CASE aim.player # 0
  <2>1. /\ s.health = ReadOr0(c, aim.player + Layout.health)
        /\ s.armor = ReadOr0(c, aim.player + Layout.armor)
        /\ s.z = ReadOr0(c, aim.player + Layout.z)
        /\ s.gun = -1 => s.clip = ReadOr0(c, aim.ammo)
        /\ s.gun # -1 => /\ s.gun \in Guns
                         /\ s.clip = ReadOr0(c, aim.player + (Layout.clip + s.gun))
                         /\ s.reserve = ReadOr0(c, aim.player + (Layout.reserve + s.gun))
    <3>1. \A g \in Guns : g # -1
      BY TrainerAssumption
    <3>2. QED
      BY <1>4, <3>1 DEF PlayerState
  <2> HIDE DEF s
  <2>2. QED
    BY <1>2, <1>4, <2>1 DEF ReadOr0, ReadFrom, s
<1>5. QED
  BY <1>3, <1>4

\* What a passed test has put back, in the memory that it leaves.
PutBack(cells) ==
    /\ \A a \in ((Aims \ Misplaced) \cup InHand) \cap DOMAIN before.cells :
         Read(cells, a) = before.cells[a]
    /\ plays = 0 =>
         \A a \in DOMAIN before.cells \ Misplaced :
           \/ aim.player # 0 /\ a \in Ammunition
           \/ Read(cells, a) = before.cells[a]

LEMMA PutBackStays ==
    ASSUME UNCHANGED <<table, macPath, aim, before, plays>>, NEW c, Cells' = c
    PROVE  PutBack(Cells)' <=> PutBack(c)
  BY LayoutStays DEF PutBack, Aims, Misplaced, InHand, ReadFrom, Armor, Ammunition, Read

\* An address that is not misplaced is where the state was read.
LEMMA InPlace ==
    ASSUME NEW a, a \notin Misplaced
    PROVE  /\ a = aim.health => ReadFrom.health = a
           /\ a = aim.armor => ReadFrom.armor = a
           /\ a = aim.ammo => ReadFrom.ammo = a
           /\ a = aim.z => ReadFrom.z = a
<1>1. \A f \in {"health", "armor", "ammo", "z"} : a = aim[f] => ReadFrom[f] = a
  BY DEF Misplaced
<1>2. QED
  BY <1>1

LEMMA RestorePutsBack ==
    ASSUME aim.player \in Nat, before.state = PlayerState(before.cells),
           NEW c, DOMAIN before.cells \subseteq DOMAIN c,
           plays = 0 => \A a \in DOMAIN before.cells \ Targets : c[a] = before.cells[a]
    PROVE  PutBack(Restored(c))
<1> DEFINE s     == before.state
           clip  == aim.player + Layout.clip + s.gun
           spare == aim.player + Layout.reserve + s.gun
           armed == aim.player # 0 /\ s.gun # -1
           d     == Restored(c)
<1>1. \A a \in DOMAIN c :
        /\ a \in DOMAIN d
        /\ d[a] = IF armed /\ a = spare THEN s.reserve
                  ELSE IF armed /\ a = clip THEN s.clip
                  ELSE IF a = aim.z THEN s.z
                  ELSE IF a = aim.ammo THEN s.clip
                  ELSE IF a \in Armor THEN s.armor
                  ELSE IF a = aim.health THEN s.health
                  ELSE c[a]
  BY RestoredHolds
<1>2. /\ ReadFrom.health \in DOMAIN before.cells => s.health = before.cells[ReadFrom.health]
      /\ aim.player # 0 /\ ReadFrom.armor \in DOMAIN before.cells
           => s.armor = before.cells[ReadFrom.armor]
      /\ ReadFrom.z \in DOMAIN before.cells => s.z = before.cells[ReadFrom.z]
      /\ ReadFrom.ammo \in DOMAIN before.cells => s.clip = before.cells[ReadFrom.ammo]
      /\ armed => /\ s.gun \in Guns
                  /\ clip \in DOMAIN before.cells => s.clip = before.cells[clip]
                  /\ spare \in DOMAIN before.cells => s.reserve = before.cells[spare]
  BY StateHolds
<1>3. armed => clip # spare
  BY <1>2, Apart
<1>4. InHand = IF armed THEN {clip, spare} ELSE {}
  BY DEF InHand
<1>5. armed => {clip, spare} \subseteq Ammunition
  BY <1>2 DEF Ammunition
<1> HIDE DEF s, clip, spare, d
<1>6. \A a \in InHand \cap DOMAIN before.cells : Read(d, a) = before.cells[a]
  BY <1>1, <1>2, <1>3, <1>4 DEF Read
<1>7. \A a \in (Aims \ Misplaced) \cap DOMAIN before.cells : Read(d, a) = before.cells[a]
  <2> SUFFICES ASSUME NEW a \in DOMAIN before.cells, a \in Aims, a \notin Misplaced,
                      a \notin InHand
               PROVE  Read(d, a) = before.cells[a]
    BY <1>6
  <2>1. /\ a = aim.z => s.z = before.cells[a]
        /\ a = aim.ammo => s.clip = before.cells[a]
        /\ a = aim.health => s.health = before.cells[a]
    BY <1>2, InPlace
  <2>2. a \in Armor => s.armor = before.cells[a]
    <3>1. a \in Armor => a = aim.armor /\ ReadFrom.armor = a /\ a # NoAddress
      BY InPlace DEF Armor
    <3>2. a \in Armor => aim.player # 0
      BY <3>1 DEF ReadFrom
    <3>3. QED
      BY <1>2, <3>1, <3>2
  <2>3. a \in DOMAIN d /\ d[a] = before.cells[a]
    BY <1>1, <1>4, <2>1, <2>2 DEF Aims
  <2>4. QED
    BY <2>3 DEF Read
<1>8. ASSUME plays = 0, NEW a \in DOMAIN before.cells \ Misplaced,
             ~(aim.player # 0 /\ a \in Ammunition)
      PROVE  Read(d, a) = before.cells[a]
  <2>1. CASE a \in Aims
    BY <1>7, <1>8, <2>1
  <2>2. CASE a \notin Aims
    <3>1. a \notin Targets /\ ~(armed /\ a \in {clip, spare})
      BY <1>5, <1>8, <2>2 DEF Targets
    <3>2. a \in DOMAIN c /\ c[a] = before.cells[a]
      BY <1>8, <3>1
    <3>3. QED
      BY <1>1, <2>2, <3>1, <3>2 DEF Aims, Read
  <2>3. QED
    BY <2>1, <2>2
<1>9. QED
  BY <1>6, <1>7, <1>8 DEF PutBack, d

\* Nothing happens after a test that passed: its worker is gone, and the game's moves
\* are no more looked at.
LEMMA PassedIsLast == Freezing /\ phase = "passed" /\ [Next]_vars => UNCHANGED vars
<1> SUFFICES ASSUME Freezing, phase = "passed", Next PROVE FALSE
  OBVIOUS
<1>1. lock # "active"
  BY DEF Freezing, FreezeFollowsTheToggle, Over
<1>2. \A i \in 1..3 : HotkeyPhases[i] # "passed"
  BY DEF HotkeyPhases
<1>3. ~\E i \in 1..3 : LookAtHotkey(i)
  BY <1>2 DEF LookAtHotkey
<1>4. ~Interrupt /\ ~KeyMoves
  BY ThreeBindings DEF Interrupt, KeyMoves
<1>5. ~ParseTable /\ ~TryNextTable /\ ~NoTable /\ ~Attach /\ ~Resolve /\ ~FallBack /\ ~Unresolved
  BY DEF ParseTable, TryNextTable, NoTable, Attach, Resolve, FallBack, Unresolved
<1>6. ~TestStart /\ ~TestHealth /\ ~TestAmmo /\ ~TestHeight /\ ~TestJump /\ ~TestLand
      /\ ~TestRestore
  BY DEF TestStart, TestHealth, TestAmmo, TestHeight, TestJump, TestLand, TestRestore
<1>7. ~Run /\ ~LineTest /\ ~ReadLine /\ ~StopPolling /\ ~PollKey /\ ~Tick /\ ~GamePlays
  BY DEF Run, LineTest, ReadLine, StopPolling, PollKey, Tick, GamePlays
<1>8. QED
  BY <1>1, <1>3, <1>4, <1>5, <1>6, <1>7 DEF Next, FreezeWrites

LEMMA PutNothing ==
    ASSUME NEW c, NEW as, NEW v, DOMAIN Put(c, as, v) = {}
    PROVE  Put(c, as, v) = <<>>
<1>1. Put(c, as, v) = [a \in {} |-> IF a \in as THEN v ELSE c[a]]
  BY DEF Put, Store
<1>2. QED
  BY <1>1

LEMMA PassedSafe ==
    Placed /\ Tested /\ Freezing /\ AimIsKnown /\ TestPutsBack /\ [Next]_vars => TestPutsBack'
<1> SUFFICES ASSUME Placed, Tested, Freezing, AimIsKnown, TestPutsBack, [Next]_vars,
                    phase' = "passed", before'.state.valid, Cells' # <<>>
             PROVE  PutBack(Cells)'
  BY DEF TestPutsBack, PutBack
<1>1. CASE TestRestore
  <2> DEFINE d == IF before.state.valid THEN Restored(Cells) ELSE Cells
  <2>1. /\ phase = "test_restore" /\ SetCells(d)
        /\ UNCHANGED <<before, plays, table, macPath>>
    BY <1>1 DEF TestRestore, Still, tableVars, worldVars
  <2>2. Cells' = d /\ UNCHANGED <<session, aim>>
    BY <2>1, SetCellsEffect DEF Steady
  <2>4. d = Restored(Cells)
    BY <2>1
  <2>5. /\ before.state = PlayerState(before.cells)
        /\ (session = "game" /\ DOMAIN Cells = {}) \/ DOMAIN before.cells \subseteq DOMAIN Cells
        /\ plays = 0 => \A a \in DOMAIN before.cells \ Targets :
                           a \in DOMAIN Cells /\ Cells[a] = before.cells[a]
    BY <2>1 DEF Tested, Testing
  <2> DEFINE c == Cells
  <2>6. DOMAIN before.cells \subseteq DOMAIN c
    <3>1. SUFFICES ASSUME session = "game", DOMAIN c = {} PROVE FALSE
      BY <2>5
    <3>2. DOMAIN Restored(c) = {}
      BY <2>5, <3>1, RestoredChanges DEF ChangedAt
    <3>3. \E e, as, v : Restored(c) = Put(e, as, v)
      BY DEF Restored
    <3>4. QED
      BY <2>2, <2>4, <3>2, <3>3, PutNothing
  <2> HIDE DEF c, d
  <2>7. PutBack(Restored(c))
    BY <2>5, <2>6, RestorePutsBack DEF Placed, c
  <2>8. Cells' = Restored(c)
    BY <2>2, <2>4 DEF c
  <2>9. QED
    BY <2>1, <2>2, <2>7, <2>8, PutBackStays
<1>2. CASE phase = "passed"
  <2>1. UNCHANGED vars
    BY <1>2, PassedIsLast
  <2>2. UNCHANGED <<before, plays, table, macPath, aim, session, game, simulated, phase>>
    BY <2>1 DEF vars, tableVars, worldVars, memVars
  <2>3. Cells' = Cells
    BY <2>2 DEF Cells
  <2>4. PutBack(Cells)
    BY <1>2, <2>2, <2>3 DEF TestPutsBack, PutBack
  <2>5. QED
    BY <2>2, <2>3, <2>4, PutBackStays
<1>3. QED
  BY <1>1, <1>2, TestStep DEF TestStart, Go

-----------------------------------------------------------------------------
(* The theorems *)

TInv ==
    /\ TableTyped /\ Trees /\ Sorting /\ Reading /\ KeysTyped /\ FiredBehind
    /\ Freezing /\ AimIsKnown /\ Placed /\ Tested /\ TestPutsBack

LEMMA TInitially == Init => TInv
<1> SUFFICES ASSUME Init PROVE TInv
  OBVIOUS
<1>1. TableTyped
  BY DocumentType, EmptySeq, IsASequence, TrainerAssumption
     DEF Init, TableInit, TableTyped, Stages
<1>2. KeysTyped /\ FiredBehind
  BY TrainerAssumption DEF Init, KeysTyped, FiredBehind
<1>3. Freezing
  BY DEF Init, Freezing, FreezeFollowsTheToggle, Over, Locks
<1>4. AimIsKnown
  BY TrainerAssumption DEF Init, AimIsKnown, Steady
<1>5. Placed
  BY TrainerAssumption DEF Init, Placed, Early, Steady, Nowhere
<1>6. Tested /\ TestPutsBack
  BY DEF Init, Tested, Testing, TestPutsBack
<1>7. Trees
  <2>1. root = NoElement /\ open = <<>>
    BY DEF Init, TableInit
  <2>2. DOMAIN open = {}
    BY <2>1
  <2>3. QED
    BY <2>1, <2>2, ElementIsTree DEF Trees, NoElement
<1>8. Sorting
  BY EmptySeq, IsASequence DEF Init, TableInit, Sorting, EmptyTable
<1>9. QED
  BY <1>1, <1>2, <1>3, <1>4, <1>5, <1>6, <1>7, <1>8, ReadingInitially DEF TInv

LEMMA TInductive == TInv /\ [Next]_vars => TInv'
<1> SUFFICES ASSUME TInv, [Next]_vars PROVE TInv'
  OBVIOUS
<1>1. TableTyped' /\ Trees' /\ Sorting' /\ Reading' /\ KeysTyped' /\ FiredBehind'
  BY TableSafe, TreesSafe, SortingSafe, ReadingSafe, KeysSafe, FiredSafe DEF TInv
<1>2. Freezing' /\ AimIsKnown'
  BY FreezeSafe, AimSafe DEF TInv
<1>3. Placed' /\ Tested' /\ TestPutsBack'
  BY PlacedSafe, TestedSafe, PassedSafe DEF TInv
<1>4. QED
  BY <1>1, <1>2, <1>3 DEF TInv

LEMMA TInvImplies == TInv => TypeOK /\ FreezeFollowsTheToggle /\ HeldKeyFiresOnce
<1> SUFFICES ASSUME TInv PROVE TypeOK /\ FreezeFollowsTheToggle /\ HeldKeyFiresOnce
  OBVIOUS
<1>1. presses[1] \in Nat /\ presses[2] \in Nat /\ presses[3] \in Nat
      /\ presses[1] + presses[2] + presses[3] <= MaxPresses
  BY DEF TInv, KeysTyped
<1>2. \A i \in 1..3 : presses[i] \in 0..MaxPresses
  <2>1. \A i \in 1..3 : i = 1 \/ i = 2 \/ i = 3
    OBVIOUS
  <2>2. QED
    BY <1>1, <2>1, TrainerAssumption
<1>3. TypeOK
  BY <1>2 DEF TInv, TypeOK, TableTyped, Freezing, AimIsKnown, Located, Stages, Locks, Steady
<1>4. HeldKeyFiresOnce
  BY DEF TInv, KeysTyped, FiredBehind, HeldKeyFiresOnce
<1>5. QED
  BY <1>3, <1>4 DEF TInv, Freezing

LEMMA Invariant == Spec => []TInv
  BY TInitially, TInductive, PTL DEF Spec

\* What OnlyItsTarget says of a step.
TargetsOnly ==
    session' = session /\ plays' = plays =>
      /\ session # "game" => game' = game
      /\ session # "simulated" => simulated' = simulated
      /\ \A a \in DOMAIN Cells' :
           a \in {aim.health, aim.armor, aim.ammo, aim.z} \cup Ammunition
             \/ Read(Cells', a) = Read(Cells, a)

LEMMA StepHitsTargets == TInv /\ [Next]_vars => TargetsOnly
<1> SUFFICES ASSUME TInv, [Next]_vars, session' = session, plays' = plays
             PROVE  /\ session # "game" => game' = game
                    /\ session # "simulated" => simulated' = simulated
                    /\ \A a \in DOMAIN Cells' : a \in Targets \/ Read(Cells', a) = Read(Cells, a)
  <2>1. Targets \subseteq {aim.health, aim.armor, aim.ammo, aim.z} \cup Ammunition
    BY DEF Targets, Aims, Armor
  <2>2. QED
    BY <2>1 DEF TargetsOnly
<1> USE DEF TInv
<1>1. CASE Attach
  BY <1>1 DEF Attach, Placed
<1>2. CASE FallBack
  <2>1. session = "simulated" /\ simulated = Simulation /\ simulated' = Simulation /\ game' = game
    BY <1>2 DEF FallBack, Placed
  <2>2. QED
    BY <2>1 DEF Cells
<1>3. CASE GamePlays
  BY <1>3, TrainerAssumption DEF GamePlays, AimIsKnown
<1>4. CASE UNCHANGED <<game, simulated, session, plays>>
  BY <1>4 DEF Cells
<1>5. CASE phase \in Steady /\ Wrote
  <2>1. PICK d : SetCells(d) /\ ChangedAt(Cells, d, Targets)
    BY <1>5 DEF Wrote
  <2>2. /\ Cells' = d
        /\ session # "game" => game' = game
        /\ session # "simulated" => simulated' = simulated
    BY <1>5, <2>1, SetCellsEffect
  <2>3. QED
    BY <2>1, <2>2 DEF ChangedAt, Read
<1>6. QED
  BY <1>1, <1>2, <1>3, <1>4, <1>5, MemoryStep

\* The variables of the parser and the trainer keep their types, and the addresses are
\* known when the trainer takes commands.
THEOREM TypeCorrect == Spec => []TypeOK
  BY Invariant, TInvImplies, PTL

\* Whatever document is parsed, and however often another table is tried: a parsed table
\* has each <CheatEntry> of the tree in exactly one of its lists, in the order of the
\* document, one with a script, an injection, raw bytes or no known type always in the
\* unsupported one (parser.cpp 504-704).
THEOREM EntriesSorted == Spec => []EntriesAreSorted
  BY Invariant, SortingSorts, PTL DEF TInv

\* Whatever document is parsed, and however deep its tree: the tokens of a tree that was
\* built are the document's, none lost, added or moved, and its entries are where they
\* belong (parse_element and the table made of its tree).
THEOREM TablesFaithful == Spec => []TableIsFaithful
<1>1. TInv => TableIsFaithful
  BY ReadingTells, SortingSorts DEF TInv, TableIsFaithful
<1>2. QED
  BY <1>1, Invariant, PTL

\* Whatever is toggled, by key or by line, and however the freeze ends: no worker the
\* trainer does not know of, no freeze it claims without one, none after main returned
\* (trigger_ammo, cancel_all).
THEOREM FreezeFollows == Spec => []FreezeFollowsTheToggle
  BY Invariant, TInvImplies, PTL

\* However the looks of the polling loop fall between presses and releases, no
\* combination fires more often than it was pressed (prev_down).
THEOREM HeldKeysFireOnce == Spec => []HeldKeyFiresOnce
  BY Invariant, TInvImplies, PTL

\* For any table, any game and any layout that keeps clips and reserves apart: a test
\* that passed has put back the resolved addresses that are where orig_state was read
\* and the gun in hand, and nothing else is changed but the other guns and the
\* addresses that the table puts elsewhere (795-811).
THEOREM TestsPutBack == Spec => []TestPutsBack
  BY Invariant, PTL DEF TInv

\* No step of the trainer or of its worker reaches a memory other than the session's, or
\* an address other than those resolved and the ammunition of the guns.
THEOREM OnlyTargets == Spec => OnlyItsTarget
<1>1. TInv /\ [Next]_vars => [TargetsOnly]_vars
  BY StepHitsTargets
<1>2. Spec => [][TargetsOnly]_vars
  BY <1>1, Invariant, PTL DEF Spec
<1>3. QED
  BY <1>2 DEF OnlyItsTarget, TargetsOnly
=============================================================================
