----------------------------- MODULE Statements -----------------------------
(***************************************************************************)
(* splitStatements (internal/storage/migrate.go): a migration file is cut  *)
(* into statements at every ";" that is neither in a comment nor in a      *)
(* string literal.  The scanner of the code is checked against a           *)
(* definition of what comments and literals are, for every short file over *)
(* the characters it tells apart; "a" stands for all others.               *)
(***************************************************************************)
EXTENDS Naturals, Sequences, SequencesExt

CONSTANT MaxLength  \* bound: characters of a file

ASSUME StatementsAssumption == MaxLength \in Nat

Space == {" ", "newline"}

Characters == {";", "-", "quote", "a"} \cup Space

VARIABLES
    body,       \* the body of the migration
    scanner     \* the loop of splitStatements

scanVars == <<body, scanner>>

TrimLeft(text) ==
    LET first == SelectInSeq(text, LAMBDA c : c \notin Space)
    IN IF first = 0 THEN <<>> ELSE SubSeq(text, first, Len(text))

TrimSpace(text) == Reverse(TrimLeft(Reverse(TrimLeft(text))))

\* hasSQL: a line that is neither blank nor begins with "--".
HasSQL(text) ==
    \E i \in DOMAIN text :
        /\ text[i] \notin Space
        /\ \A j \in 1 .. i - 1 : text[j] \in Space \/ \E k \in j .. i - 1 : text[k] = "newline"
        /\ ~(text[i] = "-" /\ i < Len(text) /\ text[i + 1] = "-")

AppendStatement(out, text) ==
    IF HasSQL(TrimSpace(text)) THEN Append(out, TrimSpace(text)) ELSE out

ScanInit ==
    /\ body \in BoundedSeq(Characters, MaxLength)
    /\ scanner = [at |-> 1, inLine |-> FALSE, inString |-> FALSE, cur |-> <<>>, out |-> <<>>, done |-> FALSE]

Followed(char) == scanner.at < Len(body) /\ body[scanner.at + 1] = char

\* cur.WriteRune(c) for the next n characters.
Write(s, n) == [s EXCEPT !.cur = @ \o SubSeq(body, s.at, s.at + n - 1), !.at = @ + n]

InComment(c) == Write([scanner EXCEPT !.inLine = c # "newline"], 1)

\* Fault: a doubled quote ends the literal.
InLiteralNoEscape(c) == Write([scanner EXCEPT !.inString = c # "quote" \/ Followed("quote")], 1)

\* '' inside a literal is an escaped quote.
InLiteral(c) ==
    IF c = "quote" /\ Followed("quote") THEN Write(scanner, 2)
    ELSE Write([scanner EXCEPT !.inString = c # "quote"], 1)

\* A ";" ends the statement and is not written.
Separator == [scanner EXCEPT !.out = AppendStatement(@, scanner.cur), !.cur = <<>>, !.at = @ + 1]

\* One round of the loop.
Scan ==
    /\ scanner.at <= Len(body)
    /\ scanner' = LET c == body[scanner.at]
                  IN CASE scanner.inLine             -> InComment(c)
                       [] ~scanner.inLine /\ scanner.inString -> InLiteral(c)
                       [] OTHER ->
                            CASE c = "-" /\ Followed("-") -> Write([scanner EXCEPT !.inLine = TRUE], 1)
                              [] c = "quote"           -> Write([scanner EXCEPT !.inString = TRUE], 1)
                              [] c = ";"               -> Separator
                              [] OTHER                 -> Write(scanner, 1)
    /\ UNCHANGED body

\* What is left after the last ";".
End ==
    /\ scanner.at > Len(body) /\ ~scanner.done
    /\ scanner' = [scanner EXCEPT !.out = AppendStatement(@, scanner.cur), !.done = TRUE]
    /\ UNCHANGED body

ScanNext == Scan \/ End

ScanSpec == ScanInit /\ [][ScanNext]_scanVars
-----------------------------------------------------------------------------
(******************************* properties ********************************)

Doubled(i) == i < Len(body) /\ body[i] = "-" /\ body[i + 1] = "-"

\* Where the file is before character i: a literal reaches from a quote to the
\* next quote, a comment from "--" to the end of its line.
Inside ==
    LET inside[i \in 1 .. Len(body) + 1] ==
          IF i = 1 THEN "code"
          ELSE CASE inside[i - 1] = "literal" -> IF body[i - 1] = "quote" THEN "code" ELSE "literal"
                 [] inside[i - 1] = "comment" -> IF body[i - 1] = "newline" THEN "code" ELSE "comment"
                 [] inside[i - 1] = "code"    -> IF body[i - 1] = "quote" THEN "literal"
                                                 ELSE IF Doubled(i - 1) THEN "comment" ELSE "code"
    IN inside

\* The statements of a file are what lies between the ";" of its code, without
\* the space around it and without the ones that hold nothing but comments;
\* splitStatements returns them in order, however comments and literals are
\* punctuated (splitStatements, appendStatement, hasSQL).
SplitAsWritten ==
    scanner.done =>
        LET inside == Inside
            ends == {i \in DOMAIN body : body[i] = ";" /\ inside[i] = "code"} \cup {Len(body) + 1}
            begin(e) == IF \E d \in ends : d < e THEN 1 + (CHOOSE d \in ends : d < e /\ \A x \in ends : x < e => x <= d)
                        ELSE 1
            isSQL(i) == body[i] \notin Space /\ (inside[i] = "literal" \/ (inside[i] = "code" /\ ~Doubled(i)))
            kept == SelectSeq(SetToSortSeq(ends, <), LAMBDA e : \E i \in begin(e) .. e - 1 : isSQL(i))
        IN scanner.out = [n \in DOMAIN kept |-> TrimSpace(SubSeq(body, begin(kept[n]), kept[n] - 1))]
=============================================================================
