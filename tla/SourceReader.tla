---------------------------- MODULE SourceReader ----------------------------
(***************************************************************************)
(* A source file is written piece by piece, with whatever Rust allows in   *)
(* every place, and then read by the macros.  What Rust makes of it is     *)
(* kept as history while it is written.                                    *)
(***************************************************************************)
EXTENDS ModuleRanges

CONSTANTS
    Openers,    \* pieces that open a block: a module, a function, a macro's input
    Items,      \* enums, structs and aliases
    Noise,      \* comments, literals and words that declare nothing
    FileNames,  \* where the file may be, below the module root
    ModuleOf,   \* the module that Rust takes it for
    MaxWeight,  \* bound: pieces of a file, the ends of blocks included; noise
                \* counts twice
    NotRead

VARIABLES
    text,     \* the file
    open,     \* the blocks that are open at its end
    line,     \* its last line
    weight,   \* what its pieces weigh
    rust,     \* history: its tokens, its module items, the lines that bound modules
    reading   \* what the macros have read from it

vars == <<text, open, line, weight, rust, reading>>

Init ==
    /\ text = "" /\ open = <<>> /\ line = 1
    /\ weight = 0
    /\ rust = [tokens |-> <<>>, items |-> <<>>, bounds |-> {}]
    /\ reading = NotRead

-----------------------------------------------------------------------------
(***************************************************************************)
(* Writing.                                                                *)
(***************************************************************************)
Place(gap) == IF gap = "\n" THEN line + 1 ELSE line

Kinds    == {open[k].kind : k \in DOMAIN open}
Path     == [k \in DOMAIN open |-> open[k].name]
Tokens(words, gap) == [k \in DOMAIN words |-> [text |-> words[k], line |-> Place(gap)]]
Bounds(kind, gap)  == IF kind = "Module" /\ "Opaque" \notin Kinds THEN {Place(gap)} ELSE {}

\* A piece after a gap, as long as what is open can still be closed.
Write(piece, gap, cost, depth) ==
    /\ reading = NotRead
    /\ gap = "" <=> text = ""
    /\ weight + cost + depth <= MaxWeight
    /\ text' = text \o gap \o piece.text
    /\ weight' = weight + cost
    /\ UNCHANGED reading

Open(piece, gap) ==
    /\ Write(piece, gap, 1, Len(open) + 1)
    /\ open' = Append(open, piece) /\ line' = Place(gap)
    /\ rust' = [rust EXCEPT !.tokens = @ \o Tokens(piece.tokens, gap),
                            !.bounds = @ \cup Bounds(piece.kind, gap)]

Close(gap) ==
    /\ open # <<>>
    /\ Write([text |-> Last(open).close], gap, 1, Len(open) - 1)
    /\ open' = Front(open) /\ line' = Place(gap)
    /\ rust' = [rust EXCEPT !.tokens = @ \o Tokens(<<Last(open).close>>, gap),
                            !.bounds = @ \cup Bounds(Last(open).kind, gap)]

Declare(item, gap) ==
    /\ Write(item, gap, 1, Len(open))
    /\ line' = Place(gap) /\ UNCHANGED open
    /\ rust' = [rust EXCEPT
         !.tokens = @ \o Tokens(item.tokens, gap),
         !.items = IF Kinds \subseteq {"Module"}
                   THEN Append(@, [kind |-> item.kind, name |-> item.name, attrs |-> item.attrs,
                                   line |-> Place(gap), path |-> Path])
                   ELSE @]

Fill(piece, gap) ==
    /\ Write(piece, gap, 2, Len(open))
    /\ line' = Place(gap) + piece.newlines /\ UNCHANGED open
    /\ rust' = [rust EXCEPT !.tokens = @ \o Tokens(piece.tokens, gap)]

-----------------------------------------------------------------------------
(***************************************************************************)
(* Reading: parse_file_modules and build_file_analysis tokenize the text,  *)
(* each for itself; syn parses it as well, and agrees with Rust.           *)
(***************************************************************************)
Parsed == [k \in DOMAIN rust.items |->
             [kind |-> rust.items[k].kind, name |-> rust.items[k].name, attrs |-> rust.items[k].attrs]]

Read ==
    /\ reading = NotRead /\ open = <<>>
    /\ LET tokens == tokenize_source(text)
       IN  reading' = [tokens |-> tokens,
                       line_modules |-> scan_inline_module_ranges(tokens),
                       analysis |-> collect_items(Parsed, scan_declaration_lines(tokens))]
    /\ UNCHANGED <<text, open, line, weight, rust>>

Next ==
    \/ \E gap \in {"", " ", "\n"} :
         \/ \E piece \in Openers : Open(piece, gap)
         \/ Close(gap)
         \/ \E item \in Items : Declare(item, gap)
         \/ \E piece \in Noise : Fill(piece, gap)
    \/ Read

Spec == Init /\ [][Next]_vars

-----------------------------------------------------------------------------
(***************************************************************************)
(* Correctness.                                                            *)
(***************************************************************************)
\* The scanner takes from a text the identifiers and brackets that Rust takes
\* from it, each on its line: what stands in nested comments, in literals with
\* escapes or quotes of their own and in raw strings is passed over, with the
\* lines it runs across, and neither a lifetime nor a raw identifier is taken
\* for a literal (tokenize_source and its skips).  And the declarations that it
\* counts are the ones that syn finds, in the same order, so that each item is
\* given its own line: what is declared in functions and in the input of macros
\* is left out on both sides (scan_declaration_lines, collect_items).
ScansFollowRust ==
    reading # NotRead =>
      /\ reading.tokens = rust.tokens
      /\ \E entries \in reading.analysis :
           [k \in DOMAIN entries |-> entries[k].line] = [k \in DOMAIN rust.items |-> rust.items[k].line]

\* Asked for the items of a module, of a kind, with an attribute or without,
\* the macros are told those that Rust has there, and no item of another
\* module, wherever the file is.  Of a line on which a module also begins or
\* ends nothing is promised.  (candidates_in_module and the other questions, on
\* top of both scans and of the module path of each line.)
QueriesFindTheItems ==
    reading # NotRead =>
      \A file \in FileNames, entries \in reading.analysis :
        LET base         == ModuleOf[file]
            paths        == [l \in 1..line |->
                              resolve_module_path_from_lines(
                                module_path_from_file_with_root(file), reading.line_modules, l)]
            Clear(found) == {c \in found : c.line \notin rust.bounds}
            True(P(_))   == Clear({[name |-> i.name, line |-> i.line, path |-> base \o i.path] :
                                     i \in {rust.items[k] : k \in {j \in DOMAIN rust.items : P(rust.items[j])}}})
            Has(i, kind, required) == i.kind = kind /\ required \subseteq i.attrs
        IN  \A module \in {base \o rust.items[k].path : k \in DOMAIN rust.items} \cup {base} :
              /\ Clear(type_aliases_in_module(entries, paths, module, "T"))
                   = True(LAMBDA i : i.kind = "type" /\ base \o i.path = module)
              /\ \A kind \in {"enum", "struct"}, required \in {{}, {"machine"}} :
                   /\ Clear(candidates_in_module(entries, paths, module, kind, required))
                        = True(LAMBDA i : Has(i, kind, required) /\ base \o i.path = module)
                   /\ Clear(same_named_candidates_elsewhere(entries, paths, module, kind, "S", required))
                        = True(LAMBDA i : Has(i, kind, required) /\ base \o i.path # module)
                   /\ LET plain == {k \in DOMAIN rust.items :
                                      /\ Has(rust.items[k], kind, {}) /\ rust.items[k].attrs = {}
                                      /\ base \o rust.items[k].path = module}
                      IN  (\A k \in DOMAIN rust.items : rust.items[k].line \notin rust.bounds)
                            => plain_item_line_in_module(entries, paths, module, kind, "S", {"machine"})
                                 = IF plain = {} THEN {} ELSE {rust.items[Min(plain)].line}
=============================================================================
