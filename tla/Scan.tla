--------------------------------- MODULE Scan ---------------------------------
(* Functions on text: a comment stripper and the splitters of initialisers in  *)
(* scripts/gen_chipdb.py, and the splitting of a command line in cli/parser.py. *)
(* A text is a sequence of characters, a special one named by a word. What a   *)
(* function keeps of a text is the set of the positions it keeps. The text     *)
(* grows by one character a step.                                              *)
EXTENDS Integers, Sequences, FiniteSets

CONSTANTS
    Alphabets,  \* the sets of characters texts are made of, one set per text
    Longest     \* length of a text (bound)

VARIABLES alphabet, text

vars == <<alphabet, text>>

Init == alphabet \in Alphabets /\ text = <<>>

Next ==
    /\ Len(text) < Longest
    /\ \E ch \in alphabet : text' = Append(text, ch)
    /\ UNCHANGED alphabet

Spec == Init /\ [][Next]_vars

Least(S, other) == IF S = {} THEN other ELSE CHOOSE i \in S : \A j \in S : i <= j

\* s[first:last + 1].strip()
Stripped(s, first, last) ==
    {i \in first..last : /\ \E j \in first..i : s[j] # "space"
                         /\ \E j \in i..last  : s[j] # "space"}

Quotes == {"quote", "apostrophe"}

--------------------------------------------------------------------------------
(* strip_comments() *)

Starts(s, a, b, i) == i < Len(s) /\ s[i] = a /\ s[i + 1] = b

BlockStarts(s, i) == Starts(s, "slash", "star", i)
LineStarts(s, i)  == Starts(s, "slash", "slash", i)

\* mutant of BlockEnd: the search for the end starts at the comment's own star
BlockEndAtStar(s, i) ==
    LET stars == {j \in i + 1..Len(s) : Starts(s, "star", "slash", j)}
    IN IF stars = {} THEN Len(s) + 1 ELSE Least(stars, 0) + 2

\* Just past a comment that begins at i, or past the text if it never ends.
BlockEnd(s, i) ==
    LET stars == {j \in i + 2..Len(s) : Starts(s, "star", "slash", j)}
    IN IF stars = {} THEN Len(s) + 1 ELSE Least(stars, 0) + 2

LineEnd(s, i) == Least({j \in i..Len(s) : s[j] = "newline"}, Len(s) + 1)

\* Just past the literal that begins at i: a backslash takes the next character along.
LiteralEnd(s, i) ==
    LET Ahead(j) == IF j > Len(s) \/ s[j] = s[i] THEN j
                    ELSE IF s[j] = "backslash" THEN j + 2 ELSE j + 1
        at[k \in 0..Len(s)] == IF k = 0 THEN i + 1 ELSE Ahead(at[k - 1])
    IN at[Len(s)] + 1

\* The loop takes a comment, a literal or a character at a time.
PieceEnd(s, i) ==
    IF BlockStarts(s, i) THEN BlockEnd(s, i)
    ELSE IF LineStarts(s, i) THEN LineEnd(s, i)
    ELSE IF s[i] \in Quotes THEN LiteralEnd(s, i) ELSE i + 1

\* Of a comment its line ends are left.
Left(s, i) ==
    {j \in i..PieceEnd(s, i) - 1 : j <= Len(s) /\ (BlockStarts(s, i) \/ LineStarts(s, i) => s[j] = "newline")}

StripComments(s) ==
    LET Ahead(i) == IF i > Len(s) THEN i ELSE PieceEnd(s, i)
        at[k \in 0..Len(s)] == IF k = 0 THEN 1 ELSE Ahead(at[k - 1])
    IN UNION {Left(s, at[k]) : k \in {m \in 0..Len(s) : at[m] <= Len(s)}}

\* The reference looks at one character at a time and knows what the one before
\* it was part of: "code", a comment that may be "opening", a "block" which may be
\* "closing", a "line", a literal, or a backslash in one.
Escaped == [quote |-> "after_quote", apostrophe |-> "after_apostrophe"]

Enters(mode, ch) ==
    CASE mode = "opening" /\ ch = "star"  -> "block"
      [] mode = "opening" /\ ch = "slash" -> "line"
      [] mode \in {"block", "closing"} -> IF ch = "star" THEN "closing"
                                          ELSE IF ch = "slash" /\ mode = "closing" THEN "code" ELSE "block"
      [] mode = "line" -> IF ch = "newline" THEN "code" ELSE "line"
      [] mode \in Quotes -> IF ch = mode THEN "code" ELSE IF ch = "backslash" THEN Escaped[mode] ELSE mode
      [] mode = "after_quote" -> "quote"
      [] mode = "after_apostrophe" -> "apostrophe"
      [] OTHER -> IF ch = "slash" THEN "opening" ELSE IF ch \in Quotes THEN ch ELSE "code"

Modes(s) == LET mode[k \in 0..Len(s)] == IF k = 0 THEN "code" ELSE Enters(mode[k - 1], s[k]) IN mode

\* A comment is what is in one, and the two characters that open it.
InComment(s, i) ==
    LET mode == Modes(s)
        Opened(j) == j <= Len(s) /\ mode[j - 1] = "opening" /\ mode[j] \in {"block", "line"}
    IN mode[i - 1] \in {"block", "closing", "line"} \/ Opened(i) \/ Opened(i + 1)

--------------------------------------------------------------------------------
(* split_elements(), split_args() *)

Opening == {"lbrace", "lparen"}
Closing == {"rbrace", "rparen"}

\* The places between commas at depth 0: where they begin and end.
SplitArgs(s) ==
    LET Goes(st, k) ==
            CASE s[k] \in Opening -> [st EXCEPT !.depth = @ + 1]
              [] s[k] \in Closing -> [st EXCEPT !.depth = @ - 1]
              [] s[k] = "comma" /\ st.depth = 0 ->
                    [st EXCEPT !.start = k + 1, !.args = @ \cup {<<st.start, k - 1>>}]
              [] OTHER -> st
        run[k \in 0..Len(s)] ==
            IF k = 0 THEN [depth |-> 0, start |-> 1, args |-> {}] ELSE Goes(run[k - 1], k)
        last == run[Len(s)]
    IN last.args \cup {<<last.start, Len(s)>>}

Arg(s, a) == Stripped(s, a[1], a[2])

\* split_elements() leaves empty ones out.
SplitElements(s) == {a \in SplitArgs(s) : Arg(s, a) # {}}

\* Commas that are in no bracket, by counting the brackets before them.
Count(s, kinds, i) == Cardinality({j \in 1..i - 1 : s[j] \in kinds})

TopCommas(s) == {i \in DOMAIN s : s[i] = "comma" /\ Count(s, Opening, i) = Count(s, Closing, i)}

--------------------------------------------------------------------------------
(* split_redirect(), tokenize() *)

\* The quote one is in after k characters.
QuoteAt(s) ==
    LET Turns(quote, ch) ==
            IF quote = "none" /\ ch \in Quotes THEN ch
            ELSE IF ch = quote THEN "none" ELSE quote
        quote[k \in 0..Len(s)] == IF k = 0 THEN "none" ELSE Turns(quote[k - 1], s[k])
    IN quote

Arrows(s) == {i \in DOMAIN s : s[i] = "arrow" /\ QuoteAt(s)[i - 1] = "none"}

\* What is left of the line, where its output goes (the screen, a file, or a
\* refusal), and the file's name.
SplitRedirect(s) ==
    LET at     == Least(Arrows(s), 0)
        append == Starts(s, "arrow", "arrow", at)
        path   == Stripped(s, IF append THEN at + 2 ELSE at + 1, Len(s))
    IN IF at = 0 THEN [line |-> DOMAIN s, to |-> "screen", path |-> {}]
       ELSE [line |-> Stripped(s, 1, at - 1), to |-> IF path = {} THEN "refused" ELSE "file", path |-> path]

\* The words of a line. Quotes hold a word together, and go; one that is not
\* closed is refused.
Tokenize(s) ==
    LET quote == QuoteAt(s)
        Goes(st, k) ==
            IF quote[k] # quote[k - 1] THEN [st EXCEPT !.have = TRUE]
            ELSE IF s[k] # "space" \/ quote[k] # "none" THEN [st EXCEPT !.word = @ \cup {k}]
            ELSE IF st.have \/ st.word # {}
                 THEN [words |-> Append(st.words, st.word), word |-> {}, have |-> FALSE]
            ELSE st
        run[k \in 0..Len(s)] ==
            IF k = 0 THEN [words |-> <<>>, word |-> {}, have |-> FALSE] ELSE Goes(run[k - 1], k)
        last == run[Len(s)]
    IN [closed |-> quote[Len(s)] = "none",
        words  |-> IF last.have \/ last.word # {} THEN Append(last.words, last.word) ELSE last.words]

--------------------------------------------------------------------------------
(* Properties *)

\* Comments are stripped exactly where a lexer that looks at one character at a
\* time finds them, literals are left alone, and every line stays on its number.
\* (gen_chipdb.py strip_comments)
StripIsALexer ==
    StripComments(text) = {i \in DOMAIN text : text[i] = "newline" \/ ~InComment(text, i)}

\* The pieces of an initialiser are the text between its outer commas: nothing is
\* lost, no piece is cut inside a bracket or holds two, and an element that is
\* left out was blank. (gen_chipdb.py split_args, split_elements)
PiecesAreWhole ==
    LET args == SplitArgs(text)
        tops == TopCommas(text)
    IN /\ {a[1] : a \in args} = {1} \cup {i + 1 : i \in tops}
       /\ {a[2] : a \in args} = {Len(text)} \cup {i - 1 : i \in tops}
       /\ \A a \in args : a[1]..a[2] \cap tops = {}
       /\ \A a, b \in args : a # b => a[2] < b[1] \/ b[2] < a[1]
       /\ (UNION {Arg(text, a) : a \in SplitElements(text)}) \cap {i \in DOMAIN text : text[i] # "space"}
             = {i \in DOMAIN text : text[i] # "space"} \ tops

\* In a line with one kind of quotes, a command goes to a file just for an arrow
\* outside them, of which there is none in what is left of the line; its words
\* are its text without the quotes, apart where a space outside quotes is between
\* them. (parser.py split_redirect, tokenize)
RedirectIsOutsideQuotes ==
    LET quotes == {i \in DOMAIN text : text[i] \in Quotes}
        Inside(i) == Count(text, Quotes, i) % 2 = 1
        Apart(i)  == text[i] = "space" /\ ~Inside(i)
        split  == SplitRedirect(text)
        tokens == Tokenize(text)
        words  == tokens.words
    IN (\A i, j \in quotes : text[i] = text[j]) =>
       /\ split.to = "screen" <=> \A i \in DOMAIN text : text[i] = "arrow" => Inside(i)
       /\ \A i \in split.line : text[i] = "arrow" => Inside(i)
       /\ tokens.closed <=> ~Inside(Len(text) + 1)
       /\ UNION {words[n] : n \in DOMAIN words} = {i \in DOMAIN text : i \notin quotes /\ ~Apart(i)}
       /\ \A n, m \in DOMAIN words : \A i \in words[n], j \in words[m] :
             i < j => (n # m <=> \E k \in i..j : Apart(k))
===============================================================================
