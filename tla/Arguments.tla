------------------------------ MODULE Arguments ------------------------------
(***************************************************************************)
(* The readers of a command line: minimist() and the option schemas on top *)
(* of it (lib.ts, script-args.ts), the targets and what is left of the     *)
(* flags of build, up and down (target-args.ts, prepareScriptArgs in       *)
(* lib.ts), list's second reading (dispatch.ts), and a plugin's command    *)
(* (plugin-command.ts).  Each goes over the same words on its own.         *)
(*                                                                         *)
(* An argument is [kind, name, value]: a "word", a "long" or a "short"     *)
(* flag, or the separator "--".  A value is the sequence of its parts      *)
(* between equals signs, <<>> when there is none, True for a bare flag.    *)
(***************************************************************************)
EXTENDS Naturals, Sequences, SequencesExt, FiniteSets, Functions

CONSTANTS Items,    \* what a user may write: [key, form, value]
          Tails,    \* what may stand behind a separator
          MaxItems  \* bound: the number of items

VARIABLE line   \* [items, tail, argv]

\* ListScript.args: the options that stand for the others of their type.
Schema ==
  [filter |-> [type |-> "string[]", alias |-> "f"],
   since |-> [type |-> "string", alias |-> "s"],
   json |-> [type |-> "boolean", alias |-> "j"],
   format |-> [type |-> "string", alias |-> "none"]]
OfType(type) == {k \in DOMAIN Schema : Schema[k].type = type}

Word(v) == [kind |-> "word", name |-> "none", value |-> v]
Long(k) == [kind |-> "long", name |-> k, value |-> <<>>]
LongEq(k, v) == [kind |-> "long", name |-> k, value |-> v]
Short(k) == [kind |-> "short", name |-> k, value |-> <<>>]
Sep == [kind |-> "--", name |-> "none", value |-> <<>>]
True == <<"true">>
False == <<"false">>
\* The text of an argument, where it is taken for a value.
Raw(t) == IF t.kind = "word" THEN t.value ELSE <<t.kind, t.name>> \o t.value

-----------------------------------------------------------------------------
(* minimist(argv, {boolean, alias}): the flags, the last one of a name, and *)
(* the words.  alias is a function from a name to its other name.           *)

Set(st, alias, k, v) ==
  [st EXCEPT !.flags = (IF k \in DOMAIN alias THEN alias[k] :> v ELSE <<>>) @@ (k :> v) @@ @]

Takes(booleans, name) == name \notin booleans

One(st, argv, i, booleans, alias) ==
  LET t == argv[i]
  IN  CASE st.after -> [st EXCEPT !.words = Append(@, Raw(t))]
        [] ~st.after /\ st.skip -> [st EXCEPT !.skip = FALSE]
        [] OTHER ->
           CASE t.kind = "--" -> [st EXCEPT !.after = TRUE]
             [] t.kind = "word" -> [st EXCEPT !.words = Append(@, t.value)]
             [] t.kind = "short" -> Set(st, alias, t.name, True)
             [] t.kind = "long" /\ t.value # <<>> -> Set(st, alias, t.name, <<t.value[1]>>)
             [] t.kind = "long" /\ t.value = <<>> ->
                IF Takes(booleans, t.name) /\ i < Len(argv) /\ argv[i + 1].kind = "word"
                THEN [Set(st, alias, t.name, argv[i + 1].value) EXCEPT !.skip = TRUE]
                ELSE Set(st, alias, t.name, True)

minimist(argv, booleans, alias) ==
  FoldLeftDomain(LAMBDA st, i : One(st, argv, i, booleans, alias),
                 [flags |-> <<>>, words |-> <<>>, skip |-> FALSE, after |-> FALSE], argv)

-----------------------------------------------------------------------------
(* ScriptArgs.parse(). *)

Aliased == {k \in DOMAIN Schema : Schema[k].alias # "none"}
KeyOf(a) == CHOOSE k \in Aliased : Schema[k].alias = a
\* Single letters become the names they stand for.
\* Broken: only those of the array options do.
normalizeArrays(argv) ==
  [i \in DOMAIN argv |-> IF argv[i].kind = "short" /\ argv[i].name = "f" THEN Long("filter")
                         ELSE argv[i]]
normalize(argv) ==
  [i \in DOMAIN argv |->
     IF argv[i].kind = "short" /\ \E k \in Aliased : Schema[k].alias = argv[i].name
     THEN Long(KeyOf(argv[i].name)) ELSE argv[i]]

\* The values of the array options, and what is left; whatever follows such a
\* flag is its value.
collect(argv) ==
  FoldLeftDomain(
    LAMBDA st, i :
      CASE st.skip -> [st EXCEPT !.skip = FALSE]
        [] ~st.skip /\ argv[i] \in {Long(k) : k \in OfType("string[]")} /\ i < Len(argv) ->
             [st EXCEPT !.arrays[argv[i].name] = Append(@, Raw(argv[i + 1])), !.skip = TRUE]
        [] OTHER -> [st EXCEPT !.rest = Append(@, argv[i])],
    [arrays |-> [k \in OfType("string[]") |-> <<>>], rest |-> <<>>, skip |-> FALSE], argv)

\* buildMinimistOptions().
Booleans == OfType("boolean") \cup {Schema[k].alias : k \in OfType("boolean") \cap Aliased}
Aliases == [n \in Aliased \cup {Schema[k].alias : k \in Aliased} |->
              IF n \in Aliased THEN Schema[n].alias ELSE KeyOf(n)]

\* The values of an option, none or one but for an array's.
parse(argv) ==
  LET collected == collect(normalize(argv))
      flags == minimist(collected.rest, Booleans, Aliases).flags
  IN  [k \in DOMAIN Schema |->
         IF k \in OfType("string[]") /\ collected.arrays[k] # <<>> THEN collected.arrays[k]
         ELSE IF k \notin DOMAIN flags THEN <<>>
         ELSE IF k \in OfType("boolean") THEN <<IF flags[k] = False THEN False ELSE True>>
         ELSE <<flags[k]>>]

-----------------------------------------------------------------------------
(* build, up and down: parseTargetArgs() first, then the flags it leaves. *)

targetArgs(argv) ==
  minimist(argv, {}, [n \in {"F", "filter"} |-> IF n = "F" THEN "filter" ELSE "F"])
PutBack(flags) ==
  IF "since" \in DOMAIN flags /\ flags["since"] # True
  THEN <<Long("since"), Word(flags["since"])>> ELSE <<>>
rebuilt(argv) ==
  LET flags == targetArgs(argv).flags
      Option(k) == CASE flags[k] = True -> <<Long(k)>> [] flags[k] = False -> <<>>
                     [] OTHER -> <<Long(k), Word(flags[k])>>
      kept == SetToSeq(DOMAIN flags \ {"filter", "since", "F"})
  IN  FlattenSeq([i \in DOMAIN kept |-> Option(kept[i])]) \o PutBack(flags)

prepareScriptArgs(argv) == parse(rebuilt(argv))

-----------------------------------------------------------------------------
(* list, read again: parseListFlags(). *)

JsonFlag(t) == (t.kind = "long" /\ t.name = "json") \/ t = Short("j")
parseListFlags(argv) ==
  FoldLeftDomain(
    LAMBDA st, i :
      CASE st.skip -> [st EXCEPT !.skip = FALSE]
        [] ~st.skip /\ argv[i].kind = "long" /\ argv[i].name = "format" ->
             [st EXCEPT !.format = IF argv[i].value # <<>> THEN <<argv[i].value>>
                                   ELSE IF i < Len(argv) THEN <<Raw(argv[i + 1])>> ELSE <<>>,
                        !.skip = argv[i].value = <<>>]
        [] ~st.skip /\ JsonFlag(argv[i]) -> [st EXCEPT !.json = <<True>>]
        [] OTHER -> st,
    [format |-> <<>>, json |-> <<>>, skip |-> FALSE], argv)

-----------------------------------------------------------------------------
(* A plugin's command: runPluginCommand(). *)

Cut(argv) == LET seps == {i \in DOMAIN argv : argv[i] = Sep}
             IN  IF seps = {} THEN Len(argv) + 1 ELSE CHOOSE i \in seps : \A j \in seps : i <= j
Before(argv) == SubSeq(argv, 1, Cut(argv) - 1)
passthrough(argv) == SubSeq(argv, Cut(argv) + 1, Len(argv))
LoneFlags == OfType("boolean") \cup {Schema[k].alias : k \in OfType("boolean") \cap Aliased}
positionals(argv) ==
  FoldLeftDomain(
    LAMBDA st, i :
      CASE st.skip -> [st EXCEPT !.skip = FALSE]
        [] ~st.skip /\ argv[i].kind = "word" -> [st EXCEPT !.words = Append(@, argv[i].value)]
        [] OTHER -> [st EXCEPT !.skip = /\ argv[i].value = <<>> /\ argv[i].name \notin LoneFlags
                                        /\ i < Len(argv) /\ argv[i + 1].kind = "word"],
    [words |-> <<>>, skip |-> FALSE], argv).words

runPluginCommand(argv) ==
  [values |-> parse(Before(argv)), positionals |-> positionals(Before(argv)),
   passthrough |-> passthrough(argv)]

-----------------------------------------------------------------------------
(* The lines: items written down one after the other, then a tail. *)

Written(it) ==
  CASE it.key = "word" -> <<Word(it.value)>>
    [] it.key # "word" /\ it.form = "eq" -> <<LongEq(it.key, it.value)>>
    [] it.key # "word" /\ it.form = "bare" -> <<Long(it.key)>>
    [] it.key # "word" /\ it.form = "letter" -> <<Short(Schema[it.key].alias)>>
    [] it.key # "word" /\ it.form = "long" -> <<Long(it.key), Word(it.value)>>
    [] it.key # "word" /\ it.form = "short" -> <<Short(Schema[it.key].alias), Word(it.value)>>
Init == line = [items |-> <<>>, tail |-> <<>>, argv |-> <<>>]
Write(it) == /\ Len(line.items) < MaxItems /\ line.tail = <<>>
             /\ line' = [line EXCEPT !.items = Append(@, it), !.argv = @ \o Written(it)]
Close(tail) == /\ line.tail = <<>>
               /\ line' = [line EXCEPT !.tail = tail, !.argv = @ \o <<Sep>> \o tail]
Next == (\E it \in Items : Write(it)) \/ (\E tail \in Tails : Close(tail))
Spec == Init /\ [][Next]_line

-----------------------------------------------------------------------------
(* What a line means. *)

Of(k) == SelectSeq(line.items, LAMBDA it : it.key = k)
Values(k) == [i \in DOMAIN Of(k) |-> Of(k)[i].value]
Meant(k) == CASE k \in OfType("string[]") \/ Of(k) = <<>> -> Values(k)
              [] OTHER -> <<Last(Values(k))>>
\* Written with the flags of one array option in one way, values without an
\* equals sign, and booleans that are not set to false.
Uses(form, k) == \E i \in DOMAIN Of(k) : Of(k)[i].form = form
Plain == /\ ~Uses("eq", "filter") \/ Len(Of("filter")) = 1
         /\ \A i \in DOMAIN line.items : Len(line.items[i].value) = 1
         /\ ~Uses("eq", "json")

\* A script reads each option of a plain line as it was written: in any order
\* with words between them, by name or by letter, the last value of an option
\* that is given twice, and all values of an array option.
ReadAsWritten == Plain /\ line.tail = <<>> => parse(line.argv) = [k \in DOMAIN Schema |-> Meant(k)]

\* A plugin's command gets the options, the words that are no option's value,
\* and what follows the separator, each as written, though two loops read them.
PluginReadsAsWritten ==
  Plain => runPluginCommand(line.argv) =
             [values |-> [k \in DOMAIN Schema |-> Meant(k)], positionals |-> Values("word"),
              passthrough |-> line.tail]

\* list's second reading of a plain line tells what its options told.
ListReadsTheSame ==
  Plain /\ line.tail = <<>> =>
    \A k \in {"json", "format"} : parseListFlags(line.argv)[k] = parse(line.argv)[k]

\* build, up and down take the targets out of the line and write the rest down
\* again: every flag of a plain line but the filter (see Targets) is still there,
\* a boolean one also when the first reading took the next word for its value.
FlagsSurviveTheTargets ==
  Plain /\ line.tail = <<>> /\ ~Uses("short", "since") =>
    \A k \in {"json", "format", "since"} : prepareScriptArgs(line.argv)[k] = Meant(k)
=============================================================================
