----------------------------- MODULE SourceScan -----------------------------
(***************************************************************************)
(* tokenize_source (source/scan.rs): the identifiers, brackets and `!` of  *)
(* a Rust text, each with its line; comments and literals are passed over. *)
(* A text is a string, and its characters are counted from 1.              *)
(***************************************************************************)
EXTENDS Integers, Sequences, FiniteSetsExt

\* chars.get(i): nothing beyond the end.
CharAt(text, i) == IF i <= Len(text) THEN SubSeq(text, i, i) ELSE ""

\* The alphabet of the texts that are scanned here.
IdentStart == {"a", "b", "c", "d", "e", "f", "g", "h", "i", "j", "k", "l", "m", "n", "o", "p", "q",
               "r", "s", "t", "u", "v", "w", "x", "y", "z", "E", "S", "T", "_"}
IdentContinue == IdentStart \cup {"0", "1"}
White  == {" ", "\n"}
Puncts == {"{", "}", "(", ")", "[", "]", "!"}
Significant == IdentStart \cup Puncts

\* The first position from i on whose character is not, or is, in the set.
PastThe(set, text, i) ==
    LET Past[j \in Nat] == IF CharAt(text, j) \in set THEN Past[j + 1] ELSE j IN Past[i]
UpTo(set, text, i) ==
    LET To[j \in Nat] == IF CharAt(text, j) \in set \cup {""} THEN j ELSE To[j + 1] IN To[i]

Newlines(text, i, j) == Cardinality({k \in i..(j - 1) : CharAt(text, k) = "\n"})

\* Past the comment that starts here; comments nest.
skip_block_comment(text, start) ==
    LET Close[i \in Nat, depth \in Nat] ==
          LET pair == <<CharAt(text, i), CharAt(text, i + 1)>>
          IN  CASE i > Len(text) -> i
                [] pair = <<"/", "*">> -> Close[i + 2, depth + 1]
                [] pair = <<"*", "/">> -> IF depth = 1 THEN i + 2 ELSE Close[i + 2, depth - 1]
                [] OTHER -> Close[i + 1, depth]
    IN  Close[start + 2, 1]

\* Past the literal whose opening quote is here.
skip_quoted_literal(text, start, terminator) ==
    LET End[i \in Nat, escaped \in BOOLEAN] ==
          CASE i > Len(text) -> i
            [] i <= Len(text) /\ CharAt(text, i) = terminator /\ ~escaped -> i + 1
            [] OTHER -> End[i + 1, ~escaped /\ CharAt(text, i) = "\\"]
    IN  End[start + 1, FALSE]

\* Past the literal r"..", r#".."#, .. whose r is here.
skip_raw_string_literal(text, start) ==
    LET quote  == PastThe({"#"}, text, start + 1)
        hashes == quote - (start + 1)
        Ends(j) == CharAt(text, j) = "\"" /\ PastThe({"#"}, text, j + 1) >= j + 1 + hashes
    IN  Min({Len(text) + 1} \cup {j + 1 + hashes : j \in {k \in (quote + 1)..Len(text) : Ends(k)}})

\* Whether another quote follows in the same word.
is_char_literal_start(text, start) ==
    LET Quoted[i \in Nat, escaped \in BOOLEAN] ==
          CASE CharAt(text, i) \in {"", "\n"} -> FALSE
            [] CharAt(text, i) = "'" /\ ~escaped -> TRUE
            [] CharAt(text, i) = " " /\ ~escaped -> FALSE
            [] OTHER -> Quoted[i + 1, ~escaped /\ CharAt(text, i) = "\\"]
    IN  Quoted[start + 1, FALSE]

is_raw_string_start(text, start) ==
    CharAt(text, start) = "r" /\ CharAt(text, PastThe({"#"}, text, start + 1)) = "\""

\* What the scanner takes in one turn from position i: where it goes on, the
\* lines it passes, and the token, if it is one.
Skip(text, i, j)  == [to |-> j, lines |-> Newlines(text, i, j), tokens |-> <<>>]
Token(text, i, j) == [to |-> j, lines |-> 0, tokens |-> <<SubSeq(text, i, j - 1)>>]

Word(text, i) ==
    CASE CharAt(text, i) = "r" /\ CharAt(text, i + 1) = "#" /\ CharAt(text, i + 2) \in IdentStart ->
           Token(text, i, PastThe(IdentContinue, text, i + 2))
      [] CharAt(text, i) \in Puncts -> Token(text, i, i + 1)
      [] CharAt(text, i) \notin Significant -> Skip(text, i, i + 1)
      [] OTHER -> Token(text, i, PastThe(IdentContinue, text, i + 1))

Lexeme(text, i) ==
    LET ch == CharAt(text, i)
        next == CharAt(text, i + 1)
    IN  CASE ch = "/" /\ next = "/" -> Skip(text, i, UpTo({"\n"}, text, i + 2))
          [] ch = "/" /\ next = "*" -> Skip(text, i, skip_block_comment(text, i))
          [] ch = "\"" -> Skip(text, i, skip_quoted_literal(text, i, "\""))
          [] ch = "'" /\ is_char_literal_start(text, i) ->
               Skip(text, i, skip_quoted_literal(text, i, "'"))
          [] ch = "b" /\ next = "\"" -> Skip(text, i, skip_quoted_literal(text, i + 1, "\""))
          [] ch = "b" /\ next = "'" /\ is_char_literal_start(text, i + 1) ->
               Skip(text, i, skip_quoted_literal(text, i + 1, "'"))
          [] ch = "b" /\ is_raw_string_start(text, i + 1) ->
               Skip(text, i, skip_raw_string_literal(text, i + 1))
          [] ch = "r" /\ is_raw_string_start(text, i) -> Skip(text, i, skip_raw_string_literal(text, i))
          [] OTHER -> Word(text, i)

tokenize_source(text) ==
    LET Scan[i \in Nat, line \in Nat] ==
          IF i > Len(text) THEN <<>>
          ELSE LET taken == Lexeme(text, i)
               IN  [k \in DOMAIN taken.tokens |-> [text |-> taken.tokens[k], line |-> line]]
                     \o Scan[taken.to, line + taken.lines]
    IN  Scan[1, 1]
=============================================================================
