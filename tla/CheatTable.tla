------------------------------ MODULE CheatTable ------------------------------
(***************************************************************************)
(* CheatTableParser (src/parser.cpp): the XML reader, which takes the      *)
(* document apart with one tag or one run of text per step, and the table  *)
(* made from its tree, one child of <CheatEntries> per step.               *)
(*                                                                         *)
(* A document is a sequence of tokens                                      *)
(*   [t |-> "open" | "empty", name, attrs]   a tag; attrs as written       *)
(*   [t |-> "close", name], [t |-> "text", text], [t |-> "space"]          *)
(*   [t |-> "decl"], [t |-> "comment"]       <?...?> and a comment         *)
(*   [t |-> "bad"]  a tag without a name, an attribute without a quoted    *)
(*                  value, <! without a comment                            *)
(* and no two texts or spaces follow each other.  Texts are taken as a     *)
(* whole; what the library makes of one is given by the constants.         *)
(***************************************************************************)
EXTENDS SequencesExt

CONSTANTS
    Documents,   \* the documents that may be parsed
    Numbers,     \* [text -> Int]: what strtoll, base 0 or 16 after 0x, makes of the
                 \* longest beginning of a text; texts it fails on are not in it
    Modules,     \* [text -> <<before, after>>]: the texts with a plus sign in them
    Pieces,      \* [text -> Seq]: the texts with separators, cut at them
    Lower,       \* [text -> text]: the texts that trimming or lower case changes
    Entities     \* [text -> text]: texts with the five known entities resolved

ASSUME TableAssumption == \A d \in Documents : d \in Seq(Range(d))

VARIABLES
    doc,      \* the document
    at,       \* the token the reader looks at
    stage,    \* "prolog", "body", "epilog", "entries", "parsed" or "refused"
    declared, \* a <?...?> has been skipped
    open,     \* the elements being read, the outermost first
    root,     \* the tree
    child,    \* the child of <CheatEntries> to be looked at
    table     \* what has been made of the ones before it

tableVars == <<doc, at, stage, declared, open, root, child, table>>

Element(name, attrs) == [name |-> name, text |-> "", attrs |-> attrs, children |-> <<>>]
NoElement == Element("", <<>>)
EmptyTable == [entries |-> <<>>, unsupported |-> <<>>]

TableInit ==
    /\ doc \in Documents
    /\ at = 1 /\ stage = "prolog" /\ declared = FALSE
    /\ open = <<>> /\ root = NoElement
    /\ child = 1 /\ table = EmptyTable

-----------------------------------------------------------------------------
(* XmlReader                                                               *)

\* parse_entity: a text is resolved, an attribute with another entity refused.
Resolved(text) == IF text \in DOMAIN Entities THEN Entities[text] ELSE text

\* A text has something in it that is no blank, and no entity stands for a blank.
Blanks == {"", " "}
ASSUME TextAssumption ==
    \A d \in Documents : \A i \in DOMAIN d :
       d[i].t = "text" => Resolved(d[i].text) \notin Blanks

\* parse_attributes: the first value of a key stays.
Attributes(pairs) ==
    [key \in {pairs[i][1] : i \in DOMAIN pairs} |->
        Resolved(pairs[CHOOSE i \in DOMAIN pairs :
                         pairs[i][1] = key /\ \A j \in 1..i-1 : pairs[j][1] # key][2])]

\* The innermost element, and the reader with it changed.
Inner == open[Len(open)]
Inside(element) == [open EXCEPT ![Len(open)] = element]

\* parse_text_until_open_brace takes a text only right after the tag.
Fresh == doc[at - 1].t = "open"

Token == at <= Len(doc) /\ at' = at + 1 /\ UNCHANGED <<doc, child, table>>

Refuse == stage' = "refused" /\ UNCHANGED <<declared, open, root>>

\* A finished element goes to its parent, or is the root.
Finish(element, outer) ==
    IF outer = <<>>
    THEN /\ root' = element /\ open' = <<>> /\ stage' = "epilog"
    ELSE /\ open' = [outer EXCEPT ![Len(outer)].children = Append(@, element)]
         /\ UNCHANGED <<root, stage>>

\* parse_root: blanks, then declarations, blanks and comments after each.
ReadProlog ==
    /\ stage = "prolog" /\ Token /\ doc[at].t \notin {"open", "empty"}
    /\ CASE doc[at].t = "space" \/ (doc[at].t = "comment" /\ declared) ->
              UNCHANGED <<stage, declared, open, root>>
         [] doc[at].t = "decl" -> declared' = TRUE /\ UNCHANGED <<stage, open, root>>
         [] OTHER -> Refuse

\* parse_element on an opening tag; an attribute's entity must be a known one.
ReadOpen ==
    /\ stage \in {"prolog", "body"} /\ Token /\ doc[at].t \in {"open", "empty"}
    /\ IF \E i \in DOMAIN doc[at].attrs : doc[at].attrs[i][2] = "&nbsp;" THEN Refuse
       ELSE LET element == Element(doc[at].name, Attributes(doc[at].attrs))
            IN /\ IF doc[at].t = "empty" THEN Finish(element, open)
                  ELSE open' = Append(open, element) /\ stage' = "body" /\ UNCHANGED root
               /\ UNCHANGED declared

ReadClose ==
    /\ stage = "body" /\ Token /\ doc[at].t = "close"
    /\ IF Inner.name # doc[at].name THEN Refuse
       ELSE Finish(Inner, Front(open)) /\ UNCHANGED declared

\* A text after a child or a comment is an error, a blank there is skipped; <?
\* and <! are no tags here.
ReadContent ==
    /\ stage = "body" /\ Token /\ doc[at].t \notin {"open", "empty", "close"}
    /\ CASE doc[at].t \in {"text", "space"} /\ Fresh ->
              /\ open' = [open EXCEPT ![Len(open)].text =
                            IF doc[at].t = "text" THEN Resolved(doc[at].text) ELSE " "]
              /\ UNCHANGED <<stage, declared, root>>
         [] doc[at].t \in {"comment", "space"} /\ ~Fresh ->
              UNCHANGED <<stage, declared, open, root>>
         [] doc[at].t = "comment" /\ Fresh -> UNCHANGED <<stage, declared, open, root>>
         [] OTHER -> Refuse

\* After the root element only blanks and comments.
ReadEpilog ==
    /\ stage = "epilog" /\ Token
    /\ IF doc[at].t \in {"space", "comment"} THEN UNCHANGED <<stage, declared, open, root>>
       ELSE Refuse

\* The end of the document: the root must be closed, and be a <CheatTable>.
ReadEnd ==
    /\ stage \in {"prolog", "body", "epilog"} /\ at = Len(doc) + 1
    /\ stage' = IF stage = "epilog" /\ root.name = "CheatTable" THEN "entries" ELSE "refused"
    /\ UNCHANGED <<doc, at, declared, open, root, child, table>>

ReadToken ==
    ReadProlog \/ ReadOpen \/ ReadClose \/ ReadContent \/ ReadEpilog \/ ReadEnd

-----------------------------------------------------------------------------
(* What a child of <CheatEntries> says                                     *)

Named(node, name) == SelectSeq(node.children, LAMBDA c : c.name = name)
Has(node, name)   == \E i \in DOMAIN node.children : node.children[i].name = name

\* find_child: the first one of that name.
FindChild(node, name) ==
    node.children[CHOOSE i \in DOMAIN node.children :
        node.children[i].name = name /\ \A j \in 1..i-1 : node.children[j].name # name]
TextOf(node, name) == IF Has(node, name) THEN FindChild(node, name).text ELSE ""
Attr(node, key)    == IF key \in DOMAIN node.attrs THEN node.attrs[key] ELSE ""

\* parse_int64, with 0 for a text that is no number where the code starts from 0.
IsNumber(text) == text \in DOMAIN Numbers
NumberOr0(text) == IF IsNumber(text) THEN Numbers[text] ELSE 0

NumbersIn(texts) ==
    [i \in DOMAIN SelectSeq(texts, IsNumber) |-> Numbers[SelectSeq(texts, IsNumber)[i]]]

\* build_entry_id.
EntryId(node, index) ==
    LET first(values) == SelectSeq(values, LAMBDA v : v[2] # "")
        given == first(<< <<"id", Attr(node, "ID")>>, <<"id", TextOf(node, "ID")>>,
                          <<"desc", Attr(node, "Description")>>,
                          <<"desc", TextOf(node, "Description")>> >>)
    IN IF given = <<>> THEN <<"anon", index>> ELSE given[1]

\* The node the address, the offsets, the type and the value are looked for in.
Variable(node) == IF Has(node, "Variable") THEN FindChild(node, "Variable") ELSE node

\* The address: the attribute, else the element, else what follows a plus sign
\* in it; else 0.
AddressOf(node) ==
    LET text == TextOf(Variable(node), "Address")
        attr == NumberOr0(Attr(Variable(node), "Address"))
    IN IF attr # 0 THEN attr
       ELSE IF IsNumber(text) THEN Numbers[text]
       ELSE IF text \in DOMAIN Modules THEN NumberOr0(Modules[text][2])
       ELSE 0

\* The section: <Section>, else the module before the plus sign of an address.
SectionOf(node) ==
    LET text == TextOf(Variable(node), "Address")
    IN IF TextOf(node, "Section") # "" THEN TextOf(node, "Section")
       ELSE IF /\ NumberOr0(Attr(Variable(node), "Address")) = 0
               /\ ~IsNumber(text) /\ text \in DOMAIN Modules
               /\ IsNumber(Modules[text][2])
       THEN Modules[text][1] ELSE ""

\* The offsets: the text of <Offsets>, then each <Offset>; what is no number is
\* left out.
OffsetsOf(node) ==
    IF ~Has(Variable(node), "Offsets") THEN <<>>
    ELSE LET offsets == FindChild(Variable(node), "Offsets")
         IN NumbersIn(<<offsets.text>> \o
              [i \in DOMAIN Named(offsets, "Offset") |-> Named(offsets, "Offset")[i].text])

\* DisplayAs before VariableType before Type.
TypeText(node) ==
    IF Has(Variable(node), "DisplayAs") THEN TextOf(Variable(node), "DisplayAs")
    ELSE IF TextOf(node, "VariableType") # "" THEN TextOf(node, "VariableType")
    ELSE TextOf(Variable(node), "Type")

\* parse_variable_type: the names of the types.
TypeNames ==
    [uint8   |-> {"byte", "uint8", "1 byte"},
     int8    |-> {"char", "int8", "signed byte"},
     uint16  |-> {"2 bytes", "2 byte", "word", "uint16"},
     int16   |-> {"short", "int16", "signed 2 bytes"},
     uint32  |-> {"4 bytes", "4 byte", "dword", "uint32"},
     int32   |-> {"int", "int32", "long", "signed 4 bytes"},
     uint64  |-> {"8 bytes", "8 byte", "qword", "uint64"},
     int64   |-> {"int64", "signed 8 bytes"},
     float32 |-> {"float", "float32", "single"},
     float64 |-> {"double", "float64"},
     string  |-> {"string"},
     bytes   |-> {"bytes", "array of bytes"}]

TypesNamed(text) ==
    LET name == IF text \in DOMAIN Lower THEN Lower[text] ELSE text
    IN {t \in DOMAIN TypeNames : name \in TypeNames[t]}

\* parse_hotkey_text, then <Code>, the <Key>s of <Keys> and <Key>, for each <Hotkey>.
HotkeysOf(node) ==
    LET codes(hotkey) ==
          NumbersIn((IF hotkey.text \in DOMAIN Pieces THEN Pieces[hotkey.text]
                     ELSE <<hotkey.text>>)
                    \o <<TextOf(hotkey, "Code")>>
                    \o (IF ~Has(hotkey, "Keys") THEN <<>>
                        ELSE LET keys == Named(FindChild(hotkey, "Keys"), "Key")
                             IN [i \in DOMAIN keys |-> keys[i].text])
                    \o <<TextOf(hotkey, "Key")>>)
        hotkeys == IF Has(node, "Hotkeys") THEN Named(FindChild(node, "Hotkeys"), "Hotkey")
                   ELSE <<>>
    IN FlattenSeq([i \in DOMAIN hotkeys |-> codes(hotkeys[i])])

\* What makes an entry unsupported, in the order in which the code asks.
Scripts    == {"AssemblerScript", "AutoAssembler", "AA", "AAScript", "LuaScript"}
Injections == {"Inject", "LoadLibrary", "ShellExecute", "DllInjection"}
RawBytes   == {"ByteArray", "Bytes"}

\* Mutant: an entry whose type is known is taken for a plain one.
Kind_TypeFirst(node) ==
    IF TypesNamed(TypeText(node)) # {} THEN "supported" ELSE "type"

Kind(node) ==
    LET any(names) == \E name \in names : Has(node, name)
    IN IF TypesNamed(TypeText(node)) = {} THEN "type"
       ELSE IF any(Scripts) THEN "script"
       ELSE IF any(Injections) THEN "injection"
       ELSE IF any(RawBytes) THEN "bytes"
       ELSE "supported"

\* A colour takes the place of the section; ShowAsSigned is overwritten by the type.
Entry(node, index) ==
    LET types == TypesNamed(TypeText(node))
        type  == IF types = {} THEN "unknown" ELSE CHOOSE t \in types : TRUE
        plain == Kind(node) = "supported"
    IN [id |-> EntryId(node, index),
        description |-> IF "Description" \in DOMAIN node.attrs THEN node.attrs["Description"]
                        ELSE TextOf(node, "Description"),
        section |-> IF plain /\ IsNumber(TextOf(node, "Color"))
                    THEN "color:0x" \o TextOf(node, "Color")
                    ELSE SectionOf(node),
        address |-> AddressOf(node), offsets |-> OffsetsOf(node),
        type |-> type,
        signed |-> IF types = {} THEN NumberOr0(TextOf(node, "ShowAsSigned")) # 0
                   ELSE type \in {"int8", "int16", "int32", "int64"},
        hotkeys |-> IF plain THEN HotkeysOf(node) ELSE <<>>,
        kind |-> Kind(node)]

-----------------------------------------------------------------------------
(* parse_string                                                            *)

\* The children of the first <CheatEntries>, none if there is no such block.
EntryNodes ==
    IF Has(root, "CheatEntries") THEN FindChild(root, "CheatEntries").children ELSE <<>>

\* The <CheatEntry>s before the child i; their number is its index.
EntriesBefore(i) == {j \in 1..i-1 : EntryNodes[j].name = "CheatEntry"}
IndexOf(i) == Cardinality(EntriesBefore(i))

\* One child: another element is passed over, an entry goes to one of the lists.
TakeChild ==
    /\ stage = "entries" /\ child <= Len(EntryNodes)
    /\ child' = child + 1
    /\ LET node  == EntryNodes[child]
           entry == Entry(node, IndexOf(child))
       IN table' = IF node.name # "CheatEntry" THEN table
                   ELSE IF entry.kind = "supported"
                   THEN [table EXCEPT !.entries = Append(@, entry)]
                   ELSE [table EXCEPT !.unsupported = Append(@, entry)]
    /\ UNCHANGED <<doc, at, stage, declared, open, root>>

TakeLast ==
    /\ stage = "entries" /\ child > Len(EntryNodes)
    /\ stage' = "parsed"
    /\ UNCHANGED <<doc, at, declared, open, root, child, table>>

TableStep == ReadToken \/ TakeChild \/ TakeLast

-----------------------------------------------------------------------------

\* The tokens of a tree up to its closing tag, and all of them, given those of its
\* children.
Opening(node) ==
    <<"open", node.name>> \o (IF node.text \in Blanks THEN <<>> ELSE <<"text", node.text>>)
Begun(node, inside) == Opening(node) \o FlattenSeq(inside)
TokensOf(node, inside) == Begun(node, inside) \o <<"close", node.name>>

\* Those of a tree down to its level `lowest`: Level[n] has the nodes n levels below the
\* root, Above[n] their tokens at n levels above the lowest.
Tokens(node, lowest) ==
    LET Level[n \in 0..lowest] ==
          IF n = 0 THEN {node} ELSE UNION {Range(x.children) : x \in Level[n-1]}
        Above[n \in 0..lowest] ==
          [x \in Level[lowest - n] |->
             TokensOf(x, [i \in DOMAIN x.children |->
                            IF n = 0 THEN <<>> ELSE Above[n-1][x.children[i]]])]
    IN Above[lowest][node]

\* Those of the document that its tree must consist of.
SignificantAt(i) ==
    CASE doc[i].t = "open"  -> <<"open", doc[i].name>>
      [] doc[i].t = "empty" -> <<"open", doc[i].name>> \o <<"close", doc[i].name>>
      [] doc[i].t = "close" -> <<"close", doc[i].name>>
      [] doc[i].t = "text"  -> <<"text", Resolved(doc[i].text)>>
      [] OTHER -> <<>>
Significant == FlattenSeq([i \in DOMAIN doc |-> SignificantAt(i)])

\* What must not be written: an entry that carries a script, an injection or raw
\* bytes, or whose type is not known.
Unsafe(node) ==
    \/ TypesNamed(TypeText(node)) = {}
    \/ \E c \in Range(node.children) : c.name \in Scripts \cup Injections \cup RawBytes

\* The list has the ids of the children in S, each once, in the order of the document.
Lists(list, S) ==
    /\ Len(list) = Cardinality(S)
    /\ \A i \in S : list[Cardinality({j \in S : j <= i})].id = EntryId(EntryNodes[i], IndexOf(i))

\* Of the children before i each <CheatEntry> is in one of the two lists, in the order
\* of the document: one that must not be written in the unsupported one.
SortedUpTo(i) ==
    /\ Lists(table.unsupported, {j \in EntriesBefore(i) : Unsafe(EntryNodes[j])})
    /\ Lists(table.entries, {j \in EntriesBefore(i) : ~Unsafe(EntryNodes[j])})

\* A parsed table has sorted all of them (parser.cpp 504-704: a missing `continue`
\* would put a script into both lists).
EntriesAreSorted == stage = "parsed" => SortedUpTo(Len(EntryNodes) + 1)

\* The reader accepts no document whose tags do not match, and loses or moves no tag or
\* text of one it accepts: no tree has more levels than its document has tokens, so these
\* are the tokens of all of it (parser.cpp 137-170).
TreeIsFaithful == stage \in {"entries", "parsed"} => Tokens(root, Len(doc)) = Significant

\* That, and every <CheatEntry> is in exactly one of the two lists, in the order of the
\* document, one that carries a script, an injection or raw bytes, or has no known type,
\* always in the unsupported one (parser.cpp 504-704).
TableIsFaithful == TreeIsFaithful /\ EntriesAreSorted
=============================================================================
