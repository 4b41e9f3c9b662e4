-------------------------------- MODULE Shell --------------------------------
(***************************************************************************)
(* The shell (sh.c): its parser, and the descriptors with which runcmd()   *)
(* starts the programs of a command.                                       *)
(*                                                                         *)
(* A line is a sequence of characters: "a" stands for any that is neither  *)
(* white space nor a symbol.  A word is the pair of the positions of its   *)
(* first character and of the one after its last, as in argv and eargv.    *)
(***************************************************************************)
EXTENDS Naturals, Sequences, FiniteSets, SequencesExt

CONSTANTS MAXARGS,
          LineLength      \* the longest line

symbols == {"<", "|", ">", "&", ";", "(", ")"}
Chars   == symbols \cup {" ", "a"}

ASSUME ShellAssumption == MAXARGS \in Nat \ {0} /\ LineLength \in Nat

VARIABLE cmdline     \* the line that main() parses

ShellInit == cmdline = <<>>

\* main() gets a line, one more character at a time: every line is one it may parse, but
\* an empty one, the end of file to getcmd().
ReadLine ==
  /\ Len(cmdline) < LineLength
  /\ \E c \in Chars : cmdline' = Append(cmdline, c)

ShellNext == ReadLine
ShellSpec == ShellInit /\ [][ShellNext]_cmdline
-----------------------------------------------------------------------------
(***************************************************************************)
(* The parser.  Each function takes the tokens of a line and a position,   *)
(* and returns a command and the position it stops at.  Those that call        *)
(* themselves or each other also take P, which has the results of          *)
(* parseline() and parsepipe() at every position.                          *)
(***************************************************************************)
End(s) == Len(s) + 1
CharAt(s, i) == IF i = End(s) THEN "NUL" ELSE s[i]
First(S) == CHOOSE i \in S : \A j \in S : i <= j

Skip(s, i) == First({j \in i..End(s) : CharAt(s, j) # " "})
WordEnd(s, i) == First({j \in i..End(s) : CharAt(s, j) # "a"})

gettoken(s, i) ==
  LET q == Skip(s, i)
      c == CharAt(s, q)
      append == c = ">" /\ CharAt(s, q + 1) = ">"
      eq == CASE c = "NUL" -> q [] c = "a" -> WordEnd(s, q) [] append -> q + 2 [] OTHER -> q + 1
  IN [char |-> c, tok |-> IF append THEN "+" ELSE c, word |-> <<q, eq>>, at |-> Skip(s, eq)]

\* The token at each position of a line.
Tokens(s) == [i \in 1..End(s) |-> gettoken(s, i)]

peek(T, i, toks) == T[i].char \in toks

execcmd(argv) == [type |-> "EXEC", argv |-> argv]
redircmd(c, f, fd) == [type |-> "REDIR", cmd |-> c, file |-> f, fd |-> fd]
pipecmd(l, r) == [type |-> "PIPE", left |-> l, right |-> r]
listcmd(l, r) == [type |-> "LIST", left |-> l, right |-> r]
backcmd(c) == [type |-> "BACK", cmd |-> c]
panic(why) == [cmd |-> [type |-> "panic", why |-> why], at |-> 0]
Failed(r) == r.cmd.type = "panic"

\* Redirections are kept apart from the command that they go around: the first of them
\* is the innermost.
wrap(c, redirs) == FoldLeft(LAMBDA d, r : redircmd(d, r.file, r.fd), c, redirs)

RECURSIVE parseredirs(_, _, _), parseargs(_, _, _, _), backs(_, _, _)

parseredirs(T, i, redirs) ==
  IF ~peek(T, i, {"<", ">"}) THEN [cmd |-> [type |-> "redirs", list |-> redirs], at |-> T[i].word[1]]
  ELSE LET t == T[i]
           f == T[t.at]
       IN IF f.tok # "a" THEN panic("missing file for redirection")
          ELSE parseredirs(T, f.at,
                 Append(redirs, [file |-> f.word, fd |-> IF t.tok = "<" THEN 0 ELSE 1]))

parseblock(T, P, i) ==
  LET l == P["line", T[i].at]
  IN IF Failed(l) THEN l
     ELSE IF ~peek(T, l.at, {")"}) THEN panic("syntax - missing )")
     ELSE LET r == parseredirs(T, T[l.at].at, <<>>)
          IN IF Failed(r) THEN r ELSE [cmd |-> wrap(l.cmd, r.cmd.list), at |-> r.at]

parseargsUnbounded(T, i, argv, redirs) ==
  LET t == T[i]
  IN IF peek(T, i, {"|", ")", "&", ";"}) \/ t.tok = "NUL"
     THEN [cmd |-> wrap(execcmd(argv), redirs), at |-> T[i].word[1]]
     ELSE IF t.tok # "a" THEN panic("syntax")
     ELSE LET r == parseredirs(T, t.at, redirs)
          IN IF Failed(r) THEN r ELSE parseargs(T, r.at, Append(argv, t.word), r.cmd.list)

\* The loop of parseexec(), with the words and redirections so far.
parseargs(T, i, argv, redirs) ==
  LET t == T[i]
      args == Append(argv, t.word)
  IN IF peek(T, i, {"|", ")", "&", ";"}) \/ t.tok = "NUL"
     THEN [cmd |-> wrap(execcmd(argv), redirs), at |-> T[i].word[1]]
     ELSE IF t.tok # "a" THEN panic("syntax")
     ELSE IF Len(args) >= MAXARGS THEN panic("too many args")
     ELSE LET r == parseredirs(T, t.at, redirs)
          IN IF Failed(r) THEN r ELSE parseargs(T, r.at, args, r.cmd.list)

parseexec(T, P, i) ==
  IF peek(T, i, {"("}) THEN parseblock(T, P, i)
  ELSE LET r == parseredirs(T, i, <<>>)
       IN IF Failed(r) THEN r ELSE parseargs(T, r.at, <<>>, r.cmd.list)

parsepipe(T, P, i) ==
  LET l == parseexec(T, P, i)
  IN IF Failed(l) \/ ~peek(T, l.at, {"|"}) THEN l
     ELSE LET r == P["pipe", T[l.at].at]
          IN IF Failed(r) THEN r ELSE [cmd |-> pipecmd(l.cmd, r.cmd), at |-> r.at]

\* The "&"s after a pipeline.
backs(T, i, c) ==
  IF ~peek(T, i, {"&"}) THEN [cmd |-> c, at |-> i] ELSE backs(T, T[i].at, backcmd(c))

parseline(T, P, i) ==
  LET p == P["pipe", i]
      l == backs(T, p.at, p.cmd)
  IN IF Failed(p) THEN p
     ELSE IF ~peek(T, l.at, {";"}) THEN l
     ELSE LET r == P["line", T[l.at].at]
          IN IF Failed(r) THEN r ELSE [cmd |-> listcmd(l.cmd, r.cmd), at |-> r.at]

parsecmd(s) ==
  LET T == Tokens(s)
      P[k \in {"line", "pipe"}, i \in 1..End(s)] ==
        IF k = "line" THEN parseline(T, P, i) ELSE parsepipe(T, P, i)
      l == P["line", 1]
  IN IF ~Failed(l) /\ Skip(s, l.at) # End(s) THEN panic("syntax").cmd ELSE l.cmd

RECURSIVE nulterminate(_)

\* The positions that nulterminate() sets to 0.
nulterminate(c) ==
  CASE c.type = "EXEC"  -> {c.argv[k][2] : k \in DOMAIN c.argv}
    [] c.type = "REDIR" -> nulterminate(c.cmd) \cup {c.file[2]}
    [] c.type = "BACK"  -> nulterminate(c.cmd)
    [] OTHER            -> nulterminate(c.left) \cup nulterminate(c.right)
-----------------------------------------------------------------------------
(***************************************************************************)
(* runcmd().  A table of descriptors is a function from those that are     *)
(* open to what they are open to.                                          *)
(***************************************************************************)
CloseNothing(t, fd) == t

Close(t, fd) == [d \in DOMAIN t \ {fd} |-> t[d]]

\* The lowest free descriptor, as fdalloc() gives it, opened to x.
Lowest(t) == First((0..Cardinality(DOMAIN t)) \ DOMAIN t)
Open(t, x) == [d \in DOMAIN t \cup {Lowest(t)} |-> IF d \in DOMAIN t THEN t[d] ELSE x]

RECURSIVE runcmd(_, _, _)

\* The processes that runcmd() of c leads to, each with its table: programs, and shells
\* that wait for a pipeline.  id tells the commands of a line apart.
runcmd(c, t, id) ==
  CASE c.type = "EXEC" -> IF c.argv = <<>> THEN {} ELSE {[runs |-> c.argv, fds |-> t, id |-> id]}
    [] c.type = "REDIR" -> runcmd(c.cmd, Open(Close(t, c.fd), <<"file", c.file>>), Append(id, 0))
    [] c.type = "BACK" -> runcmd(c.cmd, t, Append(id, 0))
    [] c.type = "LIST" ->
         runcmd(c.left, t, Append(id, 0)) \cup runcmd(c.right, t, Append(id, 1))
    [] c.type = "PIPE" ->
         LET p0 == Lowest(t)
             t1 == Open(t, <<"read end", id>>)
             p1 == Lowest(t1)
             p == Open(t1, <<"write end", id>>)
             Without(x) == Close(Close(x, p0), p1)
         IN runcmd(c.left, Without(Open(Close(p, 1), p[p1])), Append(id, 0))
            \cup runcmd(c.right, Without(Open(Close(p, 0), p[p0])), Append(id, 1))
            \cup {[runs |-> "wait", fds |-> Without(p), id |-> id]}

Console3 == [d \in 0..2 |-> <<"console">>]
-----------------------------------------------------------------------------
(***************************************************************************)
(* Reference: the grammar of the shell, and what a command means.          *)
(***************************************************************************)
RECURSIVE Lex(_, _), Simple(_, _, _)

Lex(s, i) ==
  LET t == gettoken(s, i) IN IF t.tok = "NUL" THEN <<>> ELSE <<t>> \o Lex(s, t.at)

\* Words and redirections in any order.
Simple(ts, argv, redirs) ==
  IF ts = <<>> THEN {[argv |-> argv, redirs |-> redirs]}
  ELSE IF ts[1].tok = "a" THEN Simple(Tail(ts), Append(argv, ts[1].word), redirs)
  ELSE IF ts[1].tok \in {"<", ">", "+"} /\ Len(ts) > 1 /\ ts[2].tok = "a"
  THEN Simple(SubSeq(ts, 3, Len(ts)), argv,
              Append(redirs, [file |-> ts[2].word, fd |-> IF ts[1].tok = "<" THEN 0 ELSE 1]))
  ELSE {}

SimplePart(ts, i, j) == Simple(SubSeq(ts, i, j), <<>>, <<>>)
Where(ts, i, j, tok) == {k \in i..j : ts[k].tok = tok}

\* The commands that the tokens from i to j stand for as a unit, a pipeline, a job and a
\* line; G has those of all other parts.
Units(ts, G, i, j) ==
  {wrap(execcmd(x.argv), x.redirs) : x \in {y \in SimplePart(ts, i, j) : Len(y.argv) < MAXARGS}}
  \cup IF i > j \/ ts[i].tok # "(" THEN {}
       ELSE UNION {{wrap(l, x.redirs) :
                      l \in G["line", i + 1, k - 1],
                      x \in {y \in SimplePart(ts, k + 1, j) : y.argv = <<>>}} :
                   k \in Where(ts, i, j, ")")}

Pipes(ts, G, i, j) ==
  G["unit", i, j] \cup UNION {{pipecmd(l, r) : l \in G["unit", i, k - 1], r \in G["pipe", k + 1, j]} :
                             k \in Where(ts, i, j, "|")}

Jobs(ts, G, i, j) ==
  G["pipe", i, j] \cup IF i <= j /\ ts[j].tok = "&" THEN {backcmd(c) : c \in G["job", i, j - 1]} ELSE {}

Lines(ts, G, i, j) ==
  G["job", i, j] \cup UNION {{listcmd(l, r) : l \in G["job", i, k - 1], r \in G["line", k + 1, j]} :
                            k \in Where(ts, i, j, ";")}

\* The commands that the line s stands for.
Commands(s) ==
  LET ts == Lex(s, 1)
      G[k \in {"unit", "pipe", "job", "line"}, i \in 1..Len(ts) + 1, j \in 0..Len(ts)] ==
        CASE k = "unit" -> Units(ts, G, i, j)
          [] k = "pipe" -> Pipes(ts, G, i, j)
          [] k = "job"  -> Jobs(ts, G, i, j)
          [] k = "line" -> Lines(ts, G, i, j)
  IN G["line", 1, Len(ts)]

RECURSIVE Meaning(_, _, _, _)

\* The programs of a command with their standard input and output.
Meaning(c, in, out, id) ==
  CASE c.type = "EXEC" -> IF c.argv = <<>> THEN {} ELSE {<<c.argv, in, out>>}
    [] c.type = "REDIR" -> IF c.fd = 0 THEN Meaning(c.cmd, <<"file", c.file>>, out, Append(id, 0))
                           ELSE Meaning(c.cmd, in, <<"file", c.file>>, Append(id, 0))
    [] c.type = "BACK" -> Meaning(c.cmd, in, out, Append(id, 0))
    [] c.type = "LIST" -> Meaning(c.left, in, out, Append(id, 0))
                          \cup Meaning(c.right, in, out, Append(id, 1))
    [] c.type = "PIPE" -> Meaning(c.left, in, <<"write end", id>>, Append(id, 0))
                          \cup Meaning(c.right, <<"read end", id>>, out, Append(id, 1))

\* parsecmd() accepts exactly the lines of the grammar and returns the one command that
\* the grammar gives them; and the zeroes of nulterminate() fall on no character of a
\* word, so that every word ends where it did.
ParserRight == cmdline # <<>> =>
  \E c \in {parsecmd(cmdline)} :
    IF c.type = "panic" THEN Commands(cmdline) = {}
    ELSE /\ Commands(cmdline) = {c}
         /\ \A i \in nulterminate(c) : CharAt(cmdline, i) # "a"

\* Closing and reopening descriptors, runcmd() gives each program of a command the input
\* and output that the command means, standard error, and nothing else.  The write end
\* of a pipe is held only on its left side, and not by the shell that waits for both, so
\* that the reader gets to the end of the pipe; and likewise the read end.
CommandMeans == cmdline # <<>> =>
  \E c \in {parsecmd(cmdline)} : c.type # "panic" =>
    \E procs \in {runcmd(c, Console3, <<>>)} :
      /\ {<<x.runs, x.fds[0], x.fds[1]>> : x \in {y \in procs : y.runs # "wait"}}
           = Meaning(c, <<"console">>, <<"console">>, <<>>)
      /\ \A x \in procs : DOMAIN x.fds = 0..2 /\ x.fds[2] = <<"console">>
      /\ \A x \in procs : \A d \in 0..2 :
           /\ x.fds[d][1] = "write end" => IsPrefix(Append(x.fds[d][2], 0), x.id)
           /\ x.fds[d][1] = "read end"  => IsPrefix(Append(x.fds[d][2], 1), x.id)
=============================================================================
