---------------------------- MODULE ProbeFilter ----------------------------
(***************************************************************************)
(* The condition of a probe (zt_filter.c): how the text after `if' becomes *)
(* an array of tokens, is checked once without an event, and is evaluated  *)
(* by recursive descent for every entry event.                             *)
(*                                                                         *)
(* A text is a sequence of lexemes, apart where they would run together,   *)
(* and of further blanks.  Integers have Width bits.                       *)
(* A parse function gets the tokens and arguments f, eval_enabled and the  *)
(* position and gives the value, the new position and ctx->ok.             *)
(***************************************************************************)
EXTENDS Integers, Sequences, FiniteSets

LOCAL INSTANCE Functions

CONSTANTS Width,       \* bits of uint64_t
          TokenCap,    \* ZT_PROBE_FILTER_TOKEN_CAP
          ExprCap,     \* sizeof(filter->expr)
          BinOps,      \* bound: the binary operators used in expressions
          Leaves,      \* bound: numbers and arguments used in expressions
          Depth,       \* bound: depth of expressions
          MaxText      \* bound: length of texts that need not be expressions

NumOf == [n0 |-> 0, n1 |-> 1, n2 |-> 2]
Nums == DOMAIN NumOf
Huge == "huge"         \* a number beyond 64 bits
ArgNames == {"arg0", "arg1"}
Word == 0 .. 2^Width - 1
Wrap(n) == n % 2^Width
Bool(b) == IF b THEN 1 ELSE 0

MulOps == {"*", "/"}
AddOps == {"+", "-"}
EqOps == {"==", "!="}
RelOps == {">", ">=", "<", "<="}
CmpOps == EqOps \cup RelOps

ASSUME FilterAssumption ==
    /\ Width \in Nat \ {0, 1} /\ TokenCap \in Nat /\ ExprCap \in Nat /\ Depth \in Nat /\ MaxText \in Nat
    /\ BinOps \subseteq MulOps \cup AddOps \cup CmpOps \cup {"&&", "||"}
    /\ Leaves \subseteq Nums \cup ArgNames \cup {Huge}

-----------------------------------------------------------------------------
(* Evaluation.                                                             *)

Parsed(value, pos, ok) == [value |-> value, pos |-> pos, ok |-> ok]

\* zt_filter_peek
Peek(f, pos) == IF pos > Len(f.tokens) THEN "none" ELSE f.tokens[pos]

RECURSIVE ParseOr(_, _, _)

ParsePrimary(f, on, pos) ==
    LET token == Peek(f, pos) IN
    CASE token \in Nums -> Parsed(NumOf[token], pos + 1, TRUE)
      [] token \in ArgNames -> Parsed(IF on THEN f.args[token] ELSE 0, pos + 1, TRUE)
      [] token = "(" ->
            LET r == ParseOr(f, on, pos + 1) IN
            IF Peek(f, r.pos) = ")" THEN [r EXCEPT !.pos = @ + 1] ELSE [r EXCEPT !.ok = FALSE]
      [] OTHER -> Parsed(0, pos, FALSE)

RECURSIVE ParseUnary(_, _, _)
ParseUnary(f, on, pos) ==
    IF Peek(f, pos) = "!"
    THEN LET r == ParseUnary(f, on, pos + 1) IN [r EXCEPT !.value = Bool(@ = 0)]
    ELSE ParsePrimary(f, on, pos)

\* Mutant: a division is carried out even if its value is not needed.
MutantQuotient(on, lhs, r) ==
    IF r.value = 0 THEN Parsed(0, r.pos, FALSE) ELSE [r EXCEPT !.value = lhs \div @]

\* Division by zero ends the evaluation; where nothing is evaluated it is 0.
Quotient(on, lhs, r) ==
    IF ~on THEN [r EXCEPT !.value = 0]
    ELSE IF r.value = 0 THEN Parsed(0, r.pos, FALSE)
    ELSE [r EXCEPT !.value = lhs \div @]

RECURSIVE MulLoop(_, _, _)
MulLoop(f, on, l) ==
    LET op == Peek(f, l.pos) IN
    IF ~l.ok \/ op \notin MulOps THEN l
    ELSE LET r == ParseUnary(f, on, l.pos + 1) IN
         MulLoop(f, on, IF op = "*" THEN [r EXCEPT !.value = Wrap(l.value * @)] ELSE Quotient(on, l.value, r))
ParseMul(f, on, pos) == MulLoop(f, on, ParseUnary(f, on, pos))

\* Mutant: the right operand takes everything that follows.
RECURSIVE MutantAddLoop(_, _, _)
MutantAddLoop(f, on, l) ==
    LET op == Peek(f, l.pos) IN
    IF ~l.ok \/ op \notin AddOps THEN l
    ELSE LET r == MutantAddLoop(f, on, ParseMul(f, on, l.pos + 1)) IN
         [r EXCEPT !.value = Wrap(IF op = "+" THEN l.value + @ ELSE l.value - @)]

RECURSIVE AddLoop(_, _, _)
AddLoop(f, on, l) ==
    LET op == Peek(f, l.pos) IN
    IF ~l.ok \/ op \notin AddOps THEN l
    ELSE LET r == ParseMul(f, on, l.pos + 1) IN
         AddLoop(f, on, [r EXCEPT !.value = Wrap(IF op = "+" THEN l.value + @ ELSE l.value - @)])
ParseAdd(f, on, pos) == AddLoop(f, on, ParseMul(f, on, pos))

\* zt_filter_apply_cmp
ApplyCmp(op, lhs, rhs) ==
    Bool(CASE op = "==" -> lhs = rhs [] op = "!=" -> lhs # rhs
           [] op = ">" -> lhs > rhs [] op = ">=" -> lhs >= rhs
           [] op = "<" -> lhs < rhs [] op = "<=" -> lhs <= rhs)

RECURSIVE CmpLoop(_, _, _)
CmpLoop(f, on, l) ==
    LET op == Peek(f, l.pos) IN
    IF ~l.ok \/ op \notin CmpOps THEN l
    ELSE LET r == ParseAdd(f, on, l.pos + 1) IN
         CmpLoop(f, on, [r EXCEPT !.value = ApplyCmp(op, l.value, @)])
ParseCmp(f, on, pos) == CmpLoop(f, on, ParseAdd(f, on, pos))

\* zt_filter_parse_maybe_skipped: a side that is not needed is parsed with
\* evaluation off.
RECURSIVE AndLoop(_, _, _)
AndLoop(f, on, l) ==
    IF ~l.ok \/ Peek(f, l.pos) # "&&" THEN l
    ELSE LET r == ParseCmp(f, on /\ l.value # 0, l.pos + 1) IN
         AndLoop(f, on, [r EXCEPT !.value = Bool(l.value # 0 /\ @ # 0)])
ParseAnd(f, on, pos) == AndLoop(f, on, ParseCmp(f, on, pos))

RECURSIVE OrLoop(_, _, _)
OrLoop(f, on, l) ==
    IF ~l.ok \/ Peek(f, l.pos) # "||" THEN l
    ELSE LET r == ParseAnd(f, on /\ l.value = 0, l.pos + 1) IN
         OrLoop(f, on, [r EXCEPT !.value = Bool(l.value # 0 \/ @ # 0)])
ParseOr(f, on, pos) == OrLoop(f, on, ParseAnd(f, on, pos))

NoArgs == [a \in ArgNames |-> 0]

\* Mutant: what follows the expression is not looked at.
MutantValidate(tokens) == tokens # <<>> /\ ParseOr([tokens |-> tokens, args |-> NoArgs], FALSE, 1).ok

\* zt_filter_validate
Validate(tokens) ==
    LET r == ParseOr([tokens |-> tokens, args |-> NoArgs], FALSE, 1) IN
    tokens # <<>> /\ r.ok /\ r.pos = Len(tokens) + 1

\* zt_probe_filter_eval: a condition that cannot be evaluated does not hold.
Eval(tokens, args) ==
    LET r == ParseOr([tokens |-> tokens, args |-> args], TRUE, 1) IN
    r.ok /\ r.pos = Len(tokens) + 1 /\ r.value # 0
-----------------------------------------------------------------------------
(* Compilation.                                                            *)

Operators == {"!", "(", ")"} \cup MulOps \cup AddOps \cup CmpOps \cup {"&&", "||"}
Lexemes == Nums \cup ArgNames \cup Operators
Blank == " "
Bad == "?"

\* The characters of a text: its lexemes, and a blank between two that would run together.
Chars(lexeme) ==
    CASE lexeme = Huge -> 20 [] lexeme \in ArgNames -> 4
      [] lexeme \in {"==", "!=", ">=", "<=", "&&", "||"} -> 2 [] OTHER -> 1
Apart(a, b) ==
    \/ a \in Nums \cup ArgNames \cup {Huge} /\ b \in Nums \cup {Huge}
    \/ a \in {"<", ">", "!"} /\ b = "=="
Strlen(text) ==
    SumFunction([i \in DOMAIN text |-> Chars(text[i])])
        + Cardinality({i \in 1 .. Len(text) - 1 : Apart(text[i], text[i + 1])})

\* zt_filter_skip_spaces
RECURSIVE SkipSpaces(_)
SkipSpaces(text) == IF text # <<>> /\ Head(text) = Blank THEN SkipSpaces(Tail(text)) ELSE text

\* zt_filter_append_next_token: blanks before a token are skipped; nothing but
\* blanks, no lexeme, a number for which strtoull sets errno, or a full array is an error.
RECURSIVE Tokenize(_, _)
Tokenize(text, tokens) ==
    IF text = <<>> THEN [tokens |-> tokens, ok |-> TRUE]
    ELSE IF Head(text) = Blank /\ Len(text) > 1 THEN Tokenize(Tail(text), tokens)
    ELSE IF Head(text) \notin Lexemes \/ Len(tokens) >= TokenCap THEN [tokens |-> tokens, ok |-> FALSE]
    ELSE Tokenize(Tail(text), Append(tokens, Head(text)))
-----------------------------------------------------------------------------
(* What conditions mean: C expressions as trees.                           *)

RECURSIVE Exprs(_)
Exprs(n) ==
    IF n = 0 THEN {<<"leaf", l>> : l \in Leaves}
    ELSE LET E == Exprs(n - 1) IN
         E \cup {<<"!", e>> : e \in E} \cup {<<op, l, r>> : op \in BinOps, l \in E, r \in E}

Error == -1

\* The value in C, with short-circuit evaluation and wrapping arithmetic.
RECURSIVE Value(_, _)
Value(e, args) ==
    LET l == Value(e[2], args)
        r == Value(e[3], args)
    IN
    CASE e[1] = "leaf" -> IF e[2] \in Nums THEN NumOf[e[2]] ELSE args[e[2]]
      [] e[1] = "!" -> IF l = Error THEN Error ELSE Bool(l = 0)
      [] e[1] = "&&" -> IF l \in {Error, 0} THEN l ELSE IF r = Error THEN Error ELSE Bool(r # 0)
      [] e[1] = "||" -> IF l = Error THEN Error ELSE IF l # 0 THEN 1 ELSE IF r = Error THEN Error ELSE Bool(r # 0)
      [] OTHER ->
            IF Error \in {l, r} \/ (e[1] = "/" /\ r = 0) THEN Error
            ELSE CASE e[1] = "*" -> Wrap(l * r) [] e[1] = "/" -> l \div r
                   [] e[1] = "+" -> Wrap(l + r) [] e[1] = "-" -> Wrap(l - r)
                   [] OTHER -> ApplyCmp(e[1], l, r)

\* How tightly C's operators bind.
Level(op) ==
    CASE op = "||" -> 1 [] op = "&&" -> 2 [] op \in EqOps -> 3 [] op \in RelOps -> 4
      [] op \in AddOps -> 5 [] op \in MulOps -> 6 [] OTHER -> 7

\* The text of an expression, with parentheses only where C needs them.
RECURSIVE Text(_, _)
Text(e, level) ==
    LET own == Level(e[1])
        plain == IF e[1] = "leaf" THEN <<e[2]>>
                 ELSE IF e[1] = "!" THEN <<"!">> \o Text(e[2], 7)
                 ELSE Text(e[2], own) \o <<e[1]>> \o Text(e[3], own + 1)
    IN IF own < level THEN <<"(">> \o plain \o <<")">> ELSE plain
-----------------------------------------------------------------------------
(* A condition is typed in, compiled and evaluated for an event.           *)

VARIABLES phase, expr, text, tokens, accepted, args, verdict
filterVars == <<phase, expr, text, tokens, accepted, args, verdict>>

NoExpr == <<"none">>

FilterInit ==
    /\ phase = "typed"
    /\ \/ expr \in Exprs(Depth) /\ text \in {Text(expr, 1), <<Blank>> \o Text(expr, 1)}
       \/ expr = NoExpr /\ text \in UNION {[1 .. n -> Lexemes \cup {Blank, Bad}] : n \in 0 .. MaxText}
    /\ tokens = <<>> /\ accepted = FALSE /\ args = NoArgs /\ verdict = FALSE

TooLong == LET p == SkipSpaces(text) IN p = <<>> \/ Strlen(p) >= ExprCap

\* zt_probe_filter_compile
Compile ==
    LET t == IF TooLong THEN [tokens |-> <<>>, ok |-> FALSE] ELSE Tokenize(text, <<>>) IN
    /\ phase = "typed"
    /\ phase' = "compiled"
    /\ tokens' = t.tokens
    /\ accepted' = (t.ok /\ Validate(t.tokens))
    /\ UNCHANGED <<expr, text, args, verdict>>

Evaluate ==
    /\ phase = "compiled" /\ accepted
    /\ phase' = "evaluated"
    /\ args' \in [ArgNames -> Word]
    /\ \A a \in ArgNames : a \notin {tokens[i] : i \in DOMAIN tokens} => args'[a] = 0
    /\ verdict' = Eval(tokens, args')
    /\ UNCHANGED <<expr, text, tokens, accepted>>

FilterNext == Compile \/ Evaluate
FilterSpec == FilterInit /\ [][FilterNext]_filterVars
-----------------------------------------------------------------------------
(* Properties.                                                             *)

\* The comment at the head of zt_filter.c: "recursive descent with normal C-like
\* precedence".  The filter passes exactly the events for which the expression has a value
\* in C that is not 0.  It does not: zt_filter_parse_cmp takes == and != for operators of
\* the level of < and >, and so a == b < c for (a == b) < c.
CPrecedence ==
    phase = "evaluated" /\ expr # NoExpr => verdict = (Value(expr, args) \notin {Error, 0})

\* A comparison is the right operand of == or !=, without parentheses.
RECURSIVE MixesComparisons(_)
MixesComparisons(e) ==
    \/ e[1] \in EqOps /\ e[3][1] \in RelOps
    \/ e[1] # "leaf" /\ \E i \in 2 .. Len(e) : MixesComparisons(e[i])

\* What is left of it: for every expression that does not use a comparison as the right
\* operand of == or !=, and for every event, the filter passes exactly the events for
\* which the expression has a value in C that is not 0.
AgreesWithC ==
    phase = "evaluated" /\ expr # NoExpr /\ ~MixesComparisons(expr) =>
        verdict = (Value(expr, args) \notin {Error, 0})

\* An expression is accepted at install time exactly if its tokens fit into the array, its
\* characters, without the blanks in front, into filter->expr, and its numbers into 64 bits.
WellFormedAccepted ==
    phase # "typed" /\ expr # NoExpr =>
        LET p == Text(expr, 1) IN
        accepted <=> Len(p) <= TokenCap /\ Strlen(p) < ExprCap /\ \A i \in DOMAIN p : p[i] # Huge

\* A condition accepted without an event can be parsed to its end with any event,
\* unless a division by zero is met: skipped sides consume what evaluated ones do.
AcceptedParses ==
    phase = "evaluated" =>
        LET r == ParseOr([tokens |-> tokens, args |-> args], TRUE, 1) IN
        IF r.ok THEN r.pos = Len(tokens) + 1
        ELSE \E i \in DOMAIN tokens : tokens[i] = "/"
=============================================================================
