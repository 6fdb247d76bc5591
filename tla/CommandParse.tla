----------------------------- MODULE CommandParse -----------------------------
(***************************************************************************)
(* command_parse of command.c, by which the daemon splits the lines of its *)
(* clients into tokens, and the functions that put tokens together again.  *)
(*                                                                         *)
(* A line is a sequence of characters, which stand for their classes: a    *)
(* letter for all that isalnum or ispunct accept, Other for what neither   *)
(* they nor isspace accept.                                                *)
(***************************************************************************)
EXTENDS Naturals, Sequences, SequencesExt

CONSTANTS
    Letter, Equals, Quote, DoubleQuote, Space, Other,  \* the classes
    Alphabet,      \* those that occur
    MaxLength      \* bound on the length of a line

VARIABLE string    \* the line
vars == string

Quotes == {Quote, DoubleQuote}
Visible == {Letter, Equals} \cup Quotes

\* The end of a line.
Nul == "NUL"
\* A name of a token that has none.
NoName == <<"NULL">>

-----------------------------------------------------------------------------
\* command_push_arg: a quote at the beginning is taken away, and then one,
\* of either kind, at the end.
Unquote(value) ==
    IF value = <<>> \/ value[1] \notin Quotes THEN value
    ELSE LET rest == Tail(value)
         IN IF rest # <<>> /\ Last(rest) \in Quotes THEN Front(rest) ELSE rest

\* strchr(token, '=')
SplitAt(text) ==
    LET at == {i \in DOMAIN text : text[i] = Equals}
    IN CHOOSE i \in at : \A j \in at : i <= j

\* The token of a text: a name and a value, or a value.
TokenOf(text) ==
    IF Contains(text, Equals)
    THEN [name |-> SubSeq(text, 1, SplitAt(text) - 1),
          value |-> Unquote(SubSeq(text, SplitAt(text) + 1, Len(text))), text |-> text]
    ELSE [name |-> NoName, value |-> Unquote(text), text |-> text]

\* What a character does to a token: it may open a quotation, or close it.
Within(state, ch) ==
    CASE state = "token" /\ ch = Quote -> "quote"
      [] state = "token" /\ ch = DoubleQuote -> "double quote"
      [] state = "quote" /\ ch = Quote -> "token"
      [] state = "double quote" /\ ch = DoubleQuote -> "token"
      [] OTHER -> state

\* The definitions named Mutated... are mistakes to be noticed: see QueueOps.
MutatedEndsToken(state, ch) == ch \in {Space, Nul}    \* also in a quotation

\* A space or the end of the line ends a token outside a quotation.
EndsToken(state, ch) == state = "token" /\ ch \in {Space, Nul}

\* One turn of the loop of command_parse; text is what has been seen of the
\* token, up to pos.
ParseChar(p, ch) ==
    IF p.state \in {"initial", "whitespace"}
    THEN IF ch \in Visible THEN [p EXCEPT !.state = Within("token", ch), !.text = <<ch>>]
         ELSE IF ch = Other THEN p ELSE [p EXCEPT !.state = "whitespace"]
    ELSE IF EndsToken(p.state, ch)
         THEN [state |-> "whitespace", text |-> <<>>, tokens |-> Append(p.tokens, TokenOf(p.text))]
         ELSE [p EXCEPT !.state = IF ch \in Visible THEN Within(p.state, ch) ELSE p.state,
                        !.text = Append(p.text, ch)]

\* The loop, up to the end of s.
Begin == [state |-> "initial", text |-> <<>>, tokens |-> <<>>]
Run(s) ==
    LET run[i \in 0 .. Len(s)] == IF i = 0 THEN Begin ELSE ParseChar(run[i - 1], s[i])
    IN run[Len(s)]

Parse(s) == Run(Append(s, Nul))

Tokens(s) == Parse(s).tokens

\* command_name, and command->first: the first token, when it has no name.
HasCommandName(tokens) == tokens # <<>> /\ tokens[1].name = NoName
First(tokens) == IF HasCommandName(tokens) THEN 1 ELSE 0

\* command_match
Match(tokens, name) == HasCommandName(tokens) /\ tokens[1].value = name

\* A parameter as command_params_n writes it.
Word(token) == IF token.name = NoName THEN token.value
               ELSE token.name \o <<Equals>> \o token.value

\* command_params_n: the parameters behind the command and "skip" others.
Joined(words) ==
    LET joined[i \in 0 .. Len(words)] ==
            IF i = 0 THEN <<>>
            ELSE IF i = 1 THEN words[1] ELSE joined[i - 1] \o <<Space>> \o words[i]
    IN joined[Len(words)]
ParamsN(tokens, skip) ==
    Joined([i \in 1 .. (IF skip + First(tokens) < Len(tokens)
                        THEN Len(tokens) - skip - First(tokens) ELSE 0) |->
                Word(tokens[i + skip + First(tokens)])])

-----------------------------------------------------------------------------
Init == string = <<>>

Type(ch) == Len(string) < MaxLength /\ string' = Append(string, ch)

Next == \E ch \in Alphabet : Type(ch)

Spec == Init /\ [][Next]_vars

-----------------------------------------------------------------------------
\* A line without its spaces.
Packed(s) ==
    LET packed[i \in 0 .. Len(s)] ==
            IF i = 0 THEN <<>>
            ELSE IF s[i] = Space THEN packed[i - 1] ELSE Append(packed[i - 1], s[i])
    IN packed[Len(s)]
Balanced == Parse(string).state = "whitespace"
Texts(tokens) == [i \in DOMAIN tokens |-> tokens[i].text]

\* What is put into quotation marks is one value, spaces and the other mark
\* included, also behind a name; without a name there must be no "=" in it
\* (command.c:75-121).
QuotationIsOneValue ==
    LET quoted == <<Quote>> \o string \o <<Quote>>
    IN ~Contains(string, Quote) =>
        /\ ~Contains(string, Equals) =>
               Tokens(quoted) = <<[name |-> NoName, value |-> string, text |-> quoted]>>
        /\ LET tokens == Tokens(<<Letter, Equals>> \o quoted)
           IN Len(tokens) = 1 /\ tokens[1].name = <<Letter>> /\ tokens[1].value = string

\* Nothing but spaces is lost: the texts of the tokens, one after the other,
\* are the line but for its spaces, unless a quotation is left open at its
\* end or a character of no class is in it (command.c:75-123).  A token does
\* not depend on its neighbours: each is parsed to itself, and so is the line
\* of all texts.  And a command that is passed on as its name and its
\* parameters is the same command, when no quotation is in it
\* (command.c:172-189).
TokensReturn ==
    LET tokens == Tokens(string)
    IN /\ Balanced /\ ~Contains(string, Other) =>
              Packed(Joined(Texts(tokens))) = Packed(string)
       /\ \A i \in DOMAIN tokens : Tokens(tokens[i].text) = <<tokens[i]>>
       /\ Tokens(Joined(Texts(tokens))) = tokens
       /\ HasCommandName(tokens) /\ (\A i \in DOMAIN string : string[i] \notin Quotes) =>
              /\ Tokens(Joined(<<tokens[1].value, ParamsN(tokens, 0)>>)) = tokens
              /\ Match(tokens, tokens[1].value)

\* A line and its tokens say the same (command.c:75-123, 172-189).
LinesAreTokens == QuotationIsOneValue /\ TokensReturn
=============================================================================
