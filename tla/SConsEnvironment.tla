--------------------------- MODULE SConsEnvironment ---------------------------
(* One construction variable in an Environment, in a Clone of it and in an   *)
(* Override of it (Environment.py), with Python's objects: lists and         *)
(* dictionaries live in a heap, and an operation makes a new one or changes  *)
(* one in place.  A word stands for a string; strings are added to a string  *)
(* of the words of both.  A dictionary is the sequence of its keys.          *)
(*                                                                           *)
(* And the two expansions of a command with construction variables           *)
(* (Subst.py): scons_subst makes the string that is signed, scons_subst_list *)
(* the words that are executed and printed.  A string is a sequence of       *)
(* tokens: text, " ", "$(", "$)" and references.  References are plain       *)
(* names; one with an index or an attribute is evaluated by Python and left  *)
(* out.                                                                      *)
EXTENDS Integers, Sequences, SequencesExt, FiniteSets

CONSTANTS Words,          \* the strings
          PartOf(_, _),   \* whether a string is a substring of another
          Unset,
          MaxCalls,       \* bound on the calls
          Texts,          \* the texts without a space or a dollar
          Redirecting,    \* those that end in <, > or |
          Vars,           \* the variables; one in a string is a reference to it
          Values,         \* what a variable may be: [list |-> <<string, ...>>], [string |-> string] or None
          None,
          MaxTokens       \* bound on the tokens of the command

VARIABLES heap,           \* the objects: [kind, items]
          base, clone,    \* the variable's value in _dict: Unset, string, reference
          overrides,      \* its value in the OverrideEnvironment's overrides
          passed,         \* the reference of a list of the caller's
          call            \* history: the last call, and the objects before it

envVars == <<heap, base, clone, overrides, passed, call>>

(* Values: a string has its words, an object its reference. *)
Str(ws) == [kind |-> "str", words |-> ws]
Ref(r) == [kind |-> "ref", ref |-> r]
Str1(w) == Str(<<w>>)
Obj(h, v) == IF v.kind = "ref" THEN h[v.ref] ELSE [kind |-> "str", items |-> <<v>>]
IsList(h, v) == v.kind = "ref" /\ h[v.ref].kind = "list"
IsDict(h, v) == v.kind = "ref" /\ h[v.ref].kind = "dict"
Contents(h, v) == IF v = Unset THEN Unset ELSE Obj(h, v)

(* What an operation leaves: the heap and the variable's value. *)
Sets(h, v) == [heap |-> h, value |-> v]
SetsNew(h, kind, items) ==
  Sets(Append(h, [kind |-> kind, items |-> items]), Ref(Len(h) + 1))
InPlace(h, v, items) == Sets([h EXCEPT ![v.ref].items = items], v)

Strings(h, v) == Obj(h, v).items
Minus(s, gone) == SelectSeq(s, LAMBDA x : x \notin ToSet(gone))
KeepFirst(s) == FoldLeft(LAMBDA acc, x : IF x \in ToSet(acc) THEN acc ELSE Append(acc, x), <<>>, s)
KeepLast(s) == Reverse(KeepFirst(Reverse(s)))
DictWith(s, more) == s \o KeepFirst(Minus(more, s))

(* A call's argument is copied first (copy_non_reserved_keywords). *)
ArgKinds == {"str", "list", "dict"}
Argument(h, kind, w) ==
  IF kind = "str" THEN Sets(h, Str1(w))
  ELSE SetsNew(h, kind, <<Str1(w)>>)

-----------------------------------------------------------------------------
(* The methods, on the variable's value o and the argument v.  What raises   *)
(* an exception leaves everything alone.                                     *)

Fine(h, o, v) == o # Unset /\ IsDict(h, v) => IsDict(h, o)

AppendTo(h, o, v) ==
  CASE o = Unset -> Sets(h, v)
    [] IsDict(h, o) -> InPlace(h, o, DictWith(h[o.ref].items, Strings(h, v)))
    [] IsList(h, o) /\ IsList(h, v) -> SetsNew(h, "list", h[o.ref].items \o h[v.ref].items)
    [] IsList(h, o) -> InPlace(h, o, Append(h[o.ref].items, v))
    [] IsList(h, v) -> InPlace(h, v, <<o>> \o h[v.ref].items)
    [] OTHER -> Sets(h, Str(o.words \o v.words))

PrependTo(h, o, v) ==
  CASE o = Unset -> Sets(h, v)
    [] IsDict(h, o) -> InPlace(h, o, DictWith(h[o.ref].items, Strings(h, v)))
    [] IsList(h, o) /\ IsList(h, v) -> SetsNew(h, "list", h[v.ref].items \o h[o.ref].items)
    [] IsList(h, o) -> InPlace(h, o, <<v>> \o h[o.ref].items)
    [] IsList(h, v) -> InPlace(h, v, Append(h[v.ref].items, o))
    [] OTHER -> Sets(h, Str(v.words \o o.words))

Without(h, s, v) ==
  IF v.kind = "str" THEN SelectSeq(s, LAMBDA x : ~PartOf(x, v)) ELSE Minus(s, h[v.ref].items)

(* AppendUnique and PrependUnique; with delete_existing the values that are  *)
(* there are removed first.                                                  *)
UniqueTo(h, o, v, front, delete) ==
  LET Joined(a, b) == IF front THEN b \o a ELSE a \o b
      old == IF IsList(h, o) THEN h[o.ref].items ELSE <<o>>
      new == IF ~IsList(h, v) THEN <<v>>
             ELSE IF delete = front THEN KeepFirst(h[v.ref].items)
             ELSE KeepLast(h[v.ref].items)
  IN CASE o = Unset -> IF IsList(h, v) THEN SetsNew(h, "list", new) ELSE Sets(h, v)
       [] IsDict(h, o) -> InPlace(h, o, DictWith(h[o.ref].items, h[v.ref].items))
       [] IsList(h, v) ->
            IF delete THEN SetsNew(h, "list", Joined(Minus(old, new), new))
            ELSE SetsNew(h, "list", Joined(old, Minus(new, old)))
       [] IsList(h, o) ->
            IF delete THEN SetsNew(h, "list", Joined(Without(h, old, v), new))
            ELSE IF v \in ToSet(old) THEN Sets(h, o)
            ELSE SetsNew(h, "list", Joined(old, new))
       [] OTHER -> Sets(h, Str(Joined(o.words, v.words)))
(* A string and delete_existing, or a list for a dictionary, is an error. *)
FineUnique(h, o, v, delete) ==
  o # Unset => /\ IsDict(h, o) <=> IsDict(h, v)
               /\ ~(delete /\ o.kind = "str" /\ v.kind = "str")

(* MergeFlags with a dictionary whose value is not copied.  The sum is       *)
(* reversed in place before its last occurrences are kept.                   *)
MergeInto(h, o, v) ==
  LET sum == IF o = Unset \/ Obj(h, o).items = <<>> THEN Sets(h, v) ELSE AppendTo(h, o, v)
      summed == sum.heap[sum.value.ref].items
      reversed == [sum.heap EXCEPT ![sum.value.ref].items = Reverse(summed)]
  IN SetsNew(reversed, "list", KeepLast(summed))
FineMerge(h, o, v) == /\ ~IsDict(h, v) /\ (o # Unset => ~IsDict(h, o))
                      /\ IsList(h, v) \/ (o # Unset /\ IsList(h, o))

(* semi_deepcopy: lists and dictionaries are copied. *)
semi_deepcopy_Shallow(h, v) == Sets(h, v)
semi_deepcopy(h, v) ==
  IF v = Unset \/ v.kind = "str" THEN Sets(h, v)
  ELSE SetsNew(h, h[v.ref].kind, h[v.ref].items)

-----------------------------------------------------------------------------
EnvInit ==
  /\ heap = <<[kind |-> "list", items |-> <<Str1(CHOOSE w \in Words : TRUE)>>]>>
  /\ passed = Ref(1)
  /\ base = Unset /\ clone = Unset /\ overrides = Unset
  /\ call = [name |-> "none", on |-> "none", arg |-> Unset, count |-> 0]

Called(name, on, v) ==
  /\ call.count < MaxCalls
  /\ call' = [name |-> name, on |-> on, arg |-> v, count |-> call.count + 1]

(* The methods that work on self._dict: an OverrideEnvironment passes the    *)
(* attribute on, so it is its subject's dictionary they change.              *)
DictOf(on) == IF on = "clone" THEN clone ELSE base
Leaves(on, r) ==
  /\ heap' = r.heap
  /\ IF on = "clone" THEN clone' = r.value /\ UNCHANGED base
                     ELSE base' = r.value /\ UNCHANGED clone
  /\ UNCHANGED <<overrides, passed>>

Envs == {"base", "clone", "override"}

AppendCall(on, kind, w) ==
  LET a == Argument(heap, kind, w)
  IN /\ Called("Append", on, Str1(w)) /\ Fine(a.heap, DictOf(on), a.value)
     /\ Leaves(on, AppendTo(a.heap, DictOf(on), a.value))
PrependCall(on, kind, w) ==
  LET a == Argument(heap, kind, w)
  IN /\ Called("Prepend", on, Str1(w)) /\ Fine(a.heap, DictOf(on), a.value)
     /\ Leaves(on, PrependTo(a.heap, DictOf(on), a.value))
(* AppendUnique, and with front PrependUnique. *)
UniqueCall(on, kind, w, front, delete) ==
  LET a == Argument(heap, kind, w)
  IN /\ Called("Unique", on, Str1(w)) /\ FineUnique(a.heap, DictOf(on), a.value, delete)
     /\ Leaves(on, UniqueTo(a.heap, DictOf(on), a.value, front, delete))

(* Item assignment, Replace and MergeFlags go through self[key] or _update:  *)
(* an OverrideEnvironment keeps them to itself.                              *)
ValueIn(on) == IF on = "override" /\ overrides # Unset THEN overrides ELSE DictOf(on)
Assigns(on, r) ==
  IF on = "override"
  THEN heap' = r.heap /\ overrides' = r.value /\ UNCHANGED <<base, clone, passed>>
  ELSE Leaves(on, r)

Replace(on, kind, w) ==
  Called("Replace", on, Str1(w)) /\ Assigns(on, Argument(heap, kind, w))
(* SetDefault asks self._dict whether the variable is there. *)
SetDefault(on, kind, w) ==
  /\ Called("SetDefault", on, Str1(w))
  /\ IF DictOf(on) # Unset THEN UNCHANGED <<heap, base, clone, overrides, passed>>
     ELSE Assigns(on, Argument(heap, kind, w))
MergeFlags(on, kind, w) ==
  LET a == IF kind = "passed" THEN Sets(heap, passed) ELSE Argument(heap, kind, w)
  IN /\ Called("MergeFlags", on, Str1(w)) /\ FineMerge(a.heap, ValueIn(on), a.value)
     /\ Assigns(on, MergeInto(a.heap, ValueIn(on), a.value))

Clone ==
  /\ Called("Clone", "base", Unset)
  /\ LET r == semi_deepcopy(heap, base) IN heap' = r.heap /\ clone' = r.value
  /\ UNCHANGED <<base, overrides, passed>>
Override(kind, w) ==
  /\ Called("Override", "base", Unset)
  /\ LET a == Argument(heap, kind, w) IN heap' = a.heap /\ overrides' = a.value
  /\ UNCHANGED <<base, clone, passed>>

EnvNext ==
  \/ Clone
  \/ \E w \in Words, kind \in ArgKinds :
       \/ Override(kind, w)
       \/ \E on \in Envs :
            \/ AppendCall(on, kind, w) \/ PrependCall(on, kind, w)
            \/ \E front, delete \in BOOLEAN : UniqueCall(on, kind, w, front, delete)
            \/ Replace(on, kind, w) \/ SetDefault(on, kind, w)
  \/ \E w \in Words, kind \in {"str", "list", "passed"}, on \in Envs : MergeFlags(on, kind, w)

EnvSpec == EnvInit /\ [][EnvNext]_envVars

-----------------------------------------------------------------------------
(* A call changes what its own environment sees and nothing else, although   *)
(* lists are changed in place: but for the methods that an                   *)
(* OverrideEnvironment only inherits, which change its subject, and the list *)
(* of a caller of MergeFlags, or its subject's, which may be reversed.       *)
Inherited == {"Append", "Prepend", "Unique"}
ApartStep ==
  LET Same(v, w) == Contents(heap, v) = Contents(heap', w)
      made == call'.name \in {"Clone", "Override"}
  IN /\ call'.on = "clone" \/ made => Same(base, base')
     /\ call'.on = "override" /\ call'.name \notin Inherited \cup {"MergeFlags"} =>
          Same(base, base')
     /\ call'.on # "clone" /\ call'.name # "Clone" => Same(clone, clone')
     /\ (call'.on # "override" /\ call'.name # "Override") \/ call'.name \in Inherited =>
          Same(overrides, overrides')
     /\ call'.name # "MergeFlags" => Same(passed, passed')

(* Appending or prepending only what is not there loses nothing else: every  *)
(* other item stays, in its order, and the new value is there once - but for *)
(* delete_existing with a string, which takes its substrings with it.        *)
UniqueStep ==
  LET old == DictOf(call'.on)
      new == IF call'.on = "clone" THEN clone' ELSE base'
      Others(h, v) == SelectSeq(h[v.ref].items,
                        LAMBDA x : x # call'.arg /\ ~PartOf(x, call'.arg))
  IN call'.name = "Unique" /\ old # Unset /\ IsList(heap, old) =>
       /\ Others(heap', new) = Others(heap, old)
       /\ Cardinality({i \in DOMAIN heap'[new.ref].items :
                         heap'[new.ref].items[i] = call'.arg}) >= 1

-----------------------------------------------------------------------------
(* The expansion of a command. *)

SubstAssumption == None \in Values /\ Redirecting \subseteq Texts /\ Texts \cap ({" ", "$(", "$)"} \cup Vars) = {}

VARIABLES command,       \* the string to expand
          value,         \* variable -> its value in the environment
          signed,        \* what scons_subst returns in mode SUBST_SIG
          shown,         \* what it returns in mode SUBST_CMD
          words          \* what scons_subst_list returns

substVars == <<command, value, signed, shown, words>>

Tokens == Texts \cup {" ", "$(", "$)"} \cup Vars

SubstInit ==
  /\ command \in BoundedSeq(Tokens, MaxTokens)
  /\ value \in [Vars -> Values]
  /\ signed = None /\ shown = None /\ words = None

-----------------------------------------------------------------------------
(* scons_subst.  StringSubber.expand hides a variable while its own value is *)
(* expanded; the values of a list are separated by spaces.                   *)

Pieces(v) == IF value[v] = None THEN <<>>
             ELSE IF "string" \in DOMAIN value[v] THEN <<value[v].string>> ELSE value[v].list
Replaced(string, Text(_)) ==
  FlattenSeq([i \in DOMAIN string |->
                IF string[i] \in Vars THEN Text(string[i]) ELSE <<string[i]>>])
expanded[v \in Vars, hidden \in SUBSET Vars] ==
  LET pieces == IF v \in hidden THEN <<>> ELSE Pieces(v)
      Inner(w) == expanded[w, hidden \cup {v}]
  IN FlattenSeq([i \in DOMAIN pieces |->
                   Replaced(pieces[i], Inner) \o (IF i < Len(pieces) THEN <<" ">> ELSE <<>>)])

(* White space is compressed, and stripped at both ends. *)
Compressed(string) ==
  LET kept == SelectInSeq(string, LAMBDA x : x # " ")
      Wanted(i) == string[i] # " " \/ (i < Len(string) /\ string[i + 1] # " " /\ i > kept)
  IN IF kept = 0 THEN <<>> ELSE FlattenSeq([i \in DOMAIN string |-> IF Wanted(i) THEN <<string[i]>> ELSE <<>>])

(* _rm_list and _remove_list: the brackets go, or all that is inside them. *)
Bracket(x) == IF x = "$(" THEN 1 ELSE IF x = "$)" THEN -1 ELSE 0
Depth(string, i) == FoldLeft(LAMBDA n, x : n + Bracket(x), 0, SubSeq(string, 1, i))
Unbalanced(string) == \/ Depth(string, Len(string)) # 0
                      \/ \E i \in DOMAIN string : Depth(string, i) < 0
WithoutBrackets(string) == SelectSeq(string, LAMBDA x : Bracket(x) = 0)
Outside(string) ==
  FlattenSeq([i \in DOMAIN string |-> IF Bracket(string[i]) # 0 THEN <<" ">>
                                      ELSE IF Depth(string, i) = 0 THEN <<string[i]>> ELSE <<>>])

-----------------------------------------------------------------------------
(* scons_subst_list.  The next text starts a word or goes on with the last   *)
(* one (ListSubber.append); after every expansion it goes on, but not with a *)
(* word that ends in a redirection.  A text remembers whether it was added   *)
(* between brackets: in mode SUBST_SIG the words would be without it.        *)

Start == [words |-> <<>>, append |-> "new", in_strip |-> FALSE]
next_word(so) == [so EXCEPT !.append = "new"]
this_word_AfterLists(so) == [so EXCEPT !.append = "new"]
this_word(so) == [so EXCEPT !.append = "current"]
GoesOn(so) ==
  so.append = "current" /\ so.words # <<>> /\ Last(Last(so.words)).text \notin Redirecting
add(so, x) ==
  LET entry == [text |-> x, in_strip |-> so.in_strip]
  IN [so EXCEPT !.append = "current",
        !.words = IF GoesOn(so) THEN Front(@) \o <<Append(Last(@), entry)>>
                  ELSE Append(@, <<entry>>)]
strip(so, bracket) == [so EXCEPT !.in_strip = (bracket = "$(")]

(* What a string and a reference in it ask of the words, one after the other. *)
Add(x) == [does |-> "add", text |-> x]
NextWord == [does |-> "next word"]
ThisWord == [does |-> "this word"]
Strip(x) == [does |-> "strip", bracket |-> x]
substitute(string, within_list, Asked(_)) ==
  LET Token(x) == IF x \in Vars THEN Asked(x)
                  ELSE IF Bracket(x) # 0 THEN <<Strip(x)>>
                  ELSE IF x = " " /\ ~within_list THEN <<NextWord>>
                  ELSE <<Add(x)>>
  IN FlattenSeq([i \in DOMAIN string |-> Token(string[i])])
expand[v \in Vars, hidden \in SUBSET Vars] ==
  LET Inner(w) == expand[w, hidden \cup {v}]
      list == value[v].list
  IN IF v \in hidden THEN <<ThisWord>>
     ELSE IF value[v] = None THEN <<>>
     ELSE IF "string" \in DOMAIN value[v]
          THEN substitute(value[v].string, FALSE, Inner) \o <<ThisWord>>
     ELSE FlattenSeq([i \in DOMAIN list |-> substitute(list[i], TRUE, Inner) \o <<NextWord>>])
          \o <<ThisWord>>
does(so, asked) ==
  CASE asked.does = "add" -> add(so, asked.text)
    [] asked.does = "next word" -> next_word(so)
    [] asked.does = "this word" -> this_word(so)
    [] asked.does = "strip" -> strip(so, asked.bracket)

-----------------------------------------------------------------------------
Subst ==
  LET Text(v) == expanded[v, {}]
      Asked(v) == expand[v, {}]
      string == Replaced(command, Text)
  IN /\ words = None
     /\ shown' = Compressed(WithoutBrackets(string))
     /\ signed' = IF Unbalanced(string) THEN None ELSE Compressed(Outside(string))
     /\ words' = FoldLeft(does, Start, substitute(command, FALSE, Asked)).words
     /\ UNCHANGED <<command, value>>

SubstNext == Subst
SubstSpec == SubstInit /\ [][SubstNext]_substVars

-----------------------------------------------------------------------------
(* The words that are executed, separated by spaces, are the command that is *)
(* shown, except that a value that is empty or ends with a space makes the   *)
(* text after it go on with the word before, and that a space may be missing *)
(* after a redirection.  And what is executed outside of brackets is what is *)
(* signed, so that no change of it goes unseen, unless brackets are nested:  *)
(* ListSubber does not count them, and takes what follows an inner pair for  *)
(* unbracketed.                                                              *)
TextsOf(ws) == [i \in DOMAIN ws |-> [j \in DOMAIN ws[i] |-> ws[i][j].text]]
Spaced(ws) == Compressed(FlattenSeq([i \in DOMAIN ws |-> Append(TextsOf(ws)[i], " ")]))
Unredirected(string) ==
  FlattenSeq([i \in DOMAIN string |->
    IF i > 1 /\ string[i] = " " /\ string[i - 1] \in Redirecting THEN <<>> ELSE <<string[i]>>])
Unspaced(string) == SelectSeq(string, LAMBDA x : x # " ")
OutsideWords(ws) == TextsOf([i \in DOMAIN ws |-> SelectSeq(ws[i], LAMBDA x : ~x.in_strip)])
Swallows(string) == string = <<>> \/ Last(string) = " "
swallowed[v \in Vars, hidden \in SUBSET Vars] ==
  value[v] # None /\
    \/ Swallows(WithoutBrackets(expanded[v, hidden]))
    \/ \E piece \in ToSet(Pieces(v)) :
         \/ "list" \in DOMAIN value[v] /\ Swallows(piece)
         \/ \E w \in ToSet(piece) \cap Vars : swallowed[w, hidden \cup {v}]
Nested ==
  LET Text(v) == expanded[v, {}]
      string == Replaced(command, Text)
  IN \E i \in DOMAIN string : Depth(string, i) > 1
WordsAgreeUnlessEmpty ==
  words # None =>
    /\ \/ Unredirected(Spaced(words)) = Unredirected(shown)
       \/ \E v \in ToSet(command) \cap Vars : swallowed[v, {}]
    /\ signed # None /\ ~Nested =>
         Unspaced(FlattenSeq(OutsideWords(words))) = Unspaced(signed)
===============================================================================
