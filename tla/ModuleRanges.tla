---------------------------- MODULE ModuleRanges ----------------------------
(***************************************************************************)
(* What is read off the tokens of a source text: the lines of each inline  *)
(* module (source/parser) and the lines of the declared items              *)
(* (source/analysis), and the questions the macros ask of them             *)
(* (source/query.rs).  A module path is a sequence of names, <<>> is       *)
(* "crate", and an Option is a set of at most one element.                 *)
(***************************************************************************)
EXTENDS SourceScan, SequencesExt

matching_close == [open \in {"{", "(", "["} |-> CASE open = "{" -> "}" [] open = "(" -> ")" [] OTHER -> "]"]

IsIdent(tokens, i) == i \in DOMAIN tokens /\ tokens[i].text \notin Puncts
Opens(tokens, i)   == i \in DOMAIN tokens /\ tokens[i].text \in DOMAIN matching_close

\* `mod name {`
ModuleHeader(tokens, i) ==
    /\ tokens[i].text = "mod" /\ IsIdent(tokens, i + 1)
    /\ i + 2 \in DOMAIN tokens /\ tokens[i + 2].text = "{"

\* The bracket of `name! {` or `macro_rules! name {`, given the `!`; 0 if none.
MacroBracket(tokens, i) ==
    CASE Opens(tokens, i + 1) -> i + 1
      [] IsIdent(tokens, i + 1) /\ Opens(tokens, i + 2) -> i + 2
      [] OTHER -> 0

\* Both scanners keep a stack of open blocks, how many of them are opaque, and
\* where the next module and the next opaque block will open.
Scanning == [block_stack |-> <<>>, opaque_depth |-> 0, pending_module |-> 0, start_line |-> 0,
             pending_opaque_open |-> 0, active_modules |-> <<>>, ranges |-> {}]

Block(kind, token) == [kind |-> kind, close |-> matching_close[token.text]]

Push(st, tokens, i) ==
    CASE st.pending_opaque_open = i ->
           [st EXCEPT !.block_stack = Append(@, Block("Opaque", tokens[i])),
                      !.opaque_depth = @ + 1, !.pending_opaque_open = 0]
      [] st.pending_opaque_open # i /\ st.pending_module = i ->
           [st EXCEPT !.block_stack = Append(@, Block("Module", tokens[i])
                        @@ [start_line |-> st.start_line,
                            path |-> Append(st.active_modules, tokens[i - 1].text)]),
                      !.active_modules = Append(@, tokens[i - 1].text), !.pending_module = 0]
      [] OTHER -> [st EXCEPT !.block_stack = Append(@, Block("Normal", tokens[i]))]

ModuleRange(block, line) ==
    [path |-> block.path, depth |-> Len(block.path), start_line |-> block.start_line,
     end_line |-> IF line > block.start_line THEN line - 1 ELSE line, close_line |-> line]

\* A bracket that does not match closes the block all the same, as Normal.
Pop(st, token) ==
    IF st.block_stack = <<>> THEN st
    ELSE LET block == Last(st.block_stack)
             popped == [st EXCEPT !.block_stack = Front(@)]
         IN  CASE block.kind = "Module" /\ block.close = token.text ->
                    [popped EXCEPT !.ranges = @ \cup {ModuleRange(block, token.line)},
                                   !.active_modules = Front(@)]
               [] block.kind = "Opaque" /\ block.close = token.text ->
                    [popped EXCEPT !.opaque_depth = IF @ = 0 THEN 0 ELSE @ - 1]
               [] OTHER -> popped

\* Mutant: what a macro is given counts as code.
Scan_Transparent(st, tokens, i, header) ==
    CASE IsIdent(tokens, i) ->
           IF header /\ ModuleHeader(tokens, i)
           THEN [st EXCEPT !.pending_module = i + 2, !.start_line = tokens[i].line] ELSE st
      [] Opens(tokens, i) -> Push(st, tokens, i)
      [] tokens[i].text = "!" -> st
      [] OTHER -> Pop(st, tokens[i])

\* `header` tells whether a module's header is looked for here.
Scan(st, tokens, i, header) ==
    CASE IsIdent(tokens, i) ->
           IF header /\ st.opaque_depth = 0 /\ ModuleHeader(tokens, i)
           THEN [st EXCEPT !.pending_module = i + 2, !.start_line = tokens[i].line] ELSE st
      [] Opens(tokens, i) -> Push(st, tokens, i)
      [] tokens[i].text = "!" ->
           IF st.opaque_depth = 0 /\ MacroBracket(tokens, i) # 0
           THEN [st EXCEPT !.pending_opaque_open = MacroBracket(tokens, i)] ELSE st
      [] OTHER -> Pop(st, tokens[i])

scan_inline_module_ranges(tokens) ==
    FoldLeftDomain(LAMBDA st, i : Scan(st, tokens, i, TRUE), Scanning, tokens).ranges

(***************************************************************************)
(* Declarations: only blocks of modules may be open around them.           *)
(***************************************************************************)
module_items_allowed(st) == \A k \in DOMAIN st.block_stack : st.block_stack[k].kind = "Module"

Keywords == {"enum", "struct", "type"}

\* Mutant: items inside functions count as well.
Declares_Anywhere(st, tokens, i) == st.opaque_depth = 0 /\ tokens[i].text \in Keywords

Declares(st, tokens, i) ==
    st.opaque_depth = 0 /\ module_items_allowed(st) /\ tokens[i].text \in Keywords

scan_declaration_lines(tokens) ==
    LET Step(found, i) ==
          [scan |-> Scan(found.scan, tokens, i, module_items_allowed(found.scan)),
           lines |-> IF Declares(found.scan, tokens, i)
                     THEN [found.lines EXCEPT ![tokens[i].text] = Append(@, tokens[i].line)]
                     ELSE found.lines]
    IN  FoldLeftDomain(Step, [scan |-> Scanning, lines |-> [k \in Keywords |-> <<>>]], tokens).lines

\* The items that syn finds, in order, each with the next line of its kind;
\* none of them when the lines of a kind run out.
collect_items(items, lines) ==
    LET Earlier(k) == Cardinality({j \in 1..k : items[j].kind = items[k].kind})
    IN  IF \E k \in DOMAIN items : Earlier(k) > Len(lines[items[k].kind]) THEN {}
        ELSE {[k \in DOMAIN items |-> items[k] @@ [line |-> lines[items[k].kind][Earlier(k)]]]}

(***************************************************************************)
(* Module paths of lines.                                                  *)
(***************************************************************************)
Covering(ranges, line) == {r \in ranges : line \in r.start_line..r.end_line}

\* The path of the innermost module over a line, none if that is ambiguous.
resolve_line_coverage(ranges, line) ==
    LET covering  == Covering(ranges, line)
        deepest   == {r \in covering : \A q \in covering : q.depth <= r.depth}
        paths     == {r.path : r \in deepest}
        overlaps  == {r.path : r \in covering} # paths
        ambiguous == \/ Cardinality(paths) # 1
                     \/ overlaps /\ \E r \in deepest : r.close_line = line
    IN  IF covering = {} THEN {<<>>} ELSE IF ambiguous THEN {} ELSE paths

resolve_module_path_from_lines(base_module, ranges, line) ==
    {base_module \o path : path \in resolve_line_coverage(ranges, line)}

\* A file is given by the names below the module root, without the extension.
module_path_from_file_with_root(file) ==
    CASE file \in {<<"lib">>, <<"main">>} -> <<>>
      [] Len(file) > 1 /\ Last(file) = "mod" -> Front(file)
      [] OTHER -> file

(***************************************************************************)
(* The questions.  `analysis` is a sequence of entries, `paths[line]` the  *)
(* answer of module_path_for_line; the candidates come sorted, and are     *)
(* kept as a set here.                                                     *)
(***************************************************************************)
has_attr(entry, required) == required \subseteq entry.attrs

collect_candidates(analysis, paths, kind, names, required) ==
    LET chosen == {k \in DOMAIN analysis :
                     analysis[k].kind = kind /\ analysis[k].name \in names /\ has_attr(analysis[k], required)}
    IN  UNION {{[name |-> analysis[k].name, line |-> analysis[k].line, path |-> path] :
                  path \in paths[analysis[k].line]} : k \in chosen}

candidates_in_module(analysis, paths, module, kind, required) ==
    LET names == {analysis[k].name : k \in DOMAIN analysis}
    IN  {c \in collect_candidates(analysis, paths, kind, names, required) : c.path = module}

type_aliases_in_module(analysis, paths, module, name) ==
    {c \in collect_candidates(analysis, paths, "type", {name}, {}) : c.path = module}

same_named_candidates_elsewhere(analysis, paths, module, kind, name, required) ==
    {c \in collect_candidates(analysis, paths, kind, {name}, required) : c.path # module}

\* The line of the first that does not carry the attribute.
plain_item_line_in_module(analysis, paths, module, kind, name, excluded) ==
    LET plain == {k \in DOMAIN analysis :
                    /\ analysis[k].kind = kind /\ analysis[k].name = name
                    /\ paths[analysis[k].line] = {module}
                    /\ ~has_attr(analysis[k], excluded)}
    IN  IF plain = {} THEN {} ELSE {analysis[Min(plain)].line}
=============================================================================
