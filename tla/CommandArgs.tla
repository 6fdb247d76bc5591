----------------------------- MODULE CommandArgs -----------------------------
(***************************************************************************)
(* command_args of command.c: which parameter of a command becomes the     *)
(* value of which argument.  The arguments have patterns such as           *)
(* "exposure=%lf"; parameters are given with the name of an argument or    *)
(* without, in any order.                                                  *)
(*                                                                         *)
(* A token is its name, NoName if it has none; a pattern likewise.  The    *)
(* first token, when it has no name, is the command.                       *)
(***************************************************************************)
EXTENDS Naturals, Sequences, FiniteSetsExt

CONSTANTS
    NoName,        \* NULL
    Names,         \* names of tokens
    PatternLists,  \* the patterns a command may have
    MaxTokens      \* bound on the length of a command

VARIABLES tokens, patterns
vars == <<tokens, patterns>>

First == IF tokens # <<>> /\ tokens[1] = NoName THEN 1 ELSE 0
Parameters == First + 1 .. Len(tokens)

\* The definitions named Mutated... are mistakes to be noticed: see QueueOps.
MutatedMatches(pass, args, i, d) ==            \* is_used is not looked at
    pass = 1 \/ (patterns[i] # NoName /\ tokens[d] = patterns[i])

\* May token d become the value of argument i in this pass?  In the second
\* one any token that is left may, also one with a name.
Matches(pass, args, i, d) ==
    /\ \A j \in DOMAIN args : args[j].token # d
    /\ pass = 1 \/ (patterns[i] # NoName /\ tokens[d] = patterns[i])

\* One turn of the loop, for one argument: the first token that matches, unless it has one already.
\* A string is taken with its quotation marks and its name, the text of the
\* token, when it is found in the second pass.
Assign(pass, args, i) ==
    LET candidates == {d \in Parameters : Matches(pass, args, i, d)}
    IN IF args[i].token # 0 \/ candidates = {} THEN args
       ELSE [args EXCEPT ![i] = [token |-> Min(candidates), pass |-> pass]]

Pass(pass, args) ==
    LET after[i \in 0 .. Len(patterns)] ==
            IF i = 0 THEN args ELSE Assign(pass, after[i - 1], i)
    IN  after[Len(patterns)]

Args == Pass(1, Pass(0, [i \in 1 .. Len(patterns) |-> [token |-> 0, pass |-> 0]]))

-----------------------------------------------------------------------------
Init == tokens = <<>> /\ patterns \in PatternLists

Token(name) ==
    /\ Len(tokens) < MaxTokens
    /\ tokens' = Append(tokens, name) /\ UNCHANGED patterns

Next == \E name \in Names \cup {NoName} : Token(name)

Spec == Init /\ [][Next]_vars

-----------------------------------------------------------------------------
\* Which arguments get which parameters: a named parameter goes to the
\* argument of its name, the first of several; what is left goes to the
\* arguments that are left, in the order of both; no parameter is used twice,
\* and none is left over while an argument is (command.c:302, 345-370).
Taken(pass) == {i \in DOMAIN patterns : Args[i].token # 0 /\ Args[i].pass = pass}
Named(i) == {d \in Parameters : patterns[i] # NoName /\ tokens[d] = patterns[i]}
ParametersFindTheirArguments ==
    /\ \A i, j \in DOMAIN patterns :
        i # j /\ Args[i].token # 0 => Args[i].token # Args[j].token
    /\ \A i \in DOMAIN patterns : Named(i) # {} /\ (\A j \in 1 .. i - 1 : patterns[j] # patterns[i])
        => Args[i] = [token |-> Min(Named(i)), pass |-> 0]
    /\ \A i, j \in Taken(1) : i < j => Args[i].token < Args[j].token
    /\ (\E d \in Parameters : \A i \in DOMAIN patterns : Args[i].token # d) =>
        \A i \in DOMAIN patterns : Args[i].token # 0
=============================================================================
