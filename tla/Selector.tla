------------------------------ MODULE Selector ------------------------------
(***************************************************************************)
(* JMS message selectors: the recursive descent parser of Selector.cpp and *)
(* the evaluation of what it builds against the properties of a message.   *)
(*                                                                         *)
(* A selector is a sequence of tokens [type, v]; the closures the parser   *)
(* builds are trees that Eval walks.  A property is [type, null, v].  A    *)
(* SelectorValue is [k, v] with k the alternative the variant holds; int64 *)
(* and double compare as doubles, so both are "num".  A string is a        *)
(* sequence of characters, because LIKE looks at them.                     *)
(***************************************************************************)
EXTENDS Integers, Sequences

NULL == [k |-> "null", v |-> <<>>]
Bool(b) == [k |-> "bool", v |-> b]
Num(n) == [k |-> "num", v |-> n]
Str(s) == [k |-> "str", v |-> s]

-----------------------------------------------------------------------------
(* The parser: a result is the position reached and the tree, or a failure *)
(* where InvalidSelectorException is thrown.                               *)

Parsed(i, tree) == [ok |-> TRUE, at |-> i, e |-> tree]
Invalid(i) == [ok |-> FALSE, at |-> i, e |-> NULL]
\* Notation: the next step of the descent, unless an exception is on its way.
Then(r, F(_)) == IF r.ok THEN F(r) ELSE r

check(s, i, type) == i \in DOMAIN s /\ s[i].type = type

consume(s, r, type) ==
    IF check(s, r.at, type) THEN [r EXCEPT !.at = @ + 1] ELSE Invalid(r.at)

Literals == {"STRING", "INT_LIT", "FLOAT_LIT", "TRUE_LIT", "FALSE_LIT", "NULL_LIT"}
Relational == {"EQ", "NEQ", "LT", "LTE", "GT", "GTE"}

Literal(token) ==
    CASE token.type = "STRING" -> Str(token.v)
      [] token.type \in {"INT_LIT", "FLOAT_LIT"} -> Num(token.v)
      [] token.type = "TRUE_LIT" -> Bool(TRUE)
      [] token.type = "FALSE_LIT" -> Bool(FALSE)
      [] token.type = "NULL_LIT" -> NULL

RECURSIVE parseOr(_, _), OrTail(_, _), AndTail(_, _), parseNot(_, _), Items(_, _)

parsePrimary(s, i) ==
    IF check(s, i, "LPAREN")
    THEN Then(parseOr(s, i + 1), LAMBDA r : consume(s, r, "RPAREN"))
    ELSE IF i <= Len(s) /\ s[i].type \in Literals
    THEN Parsed(i + 1, [op |-> "lit", val |-> Literal(s[i])])
    ELSE IF check(s, i, "IDENT")
    THEN Parsed(i + 1, [op |-> "prop", name |-> s[i].v])
    ELSE Invalid(i)

\* the list of an IN, from its first item at r
Items(s, r) ==
    IF check(s, r.at, "COMMA")
    THEN Then(parsePrimary(s, r.at + 1),
              LAMBDA q : Items(s, Parsed(q.at, Append(r.e, q.e))))
    ELSE consume(s, r, "RPAREN")

Compared(s, l) ==
    LET negated == check(s, l.at, "NOT")
        i == IF negated THEN l.at + 1 ELSE l.at
        isNot == check(s, l.at + 1, "NOT")
    IN  IF check(s, l.at, "IS")
        THEN consume(s, Parsed(IF isNot THEN l.at + 2 ELSE l.at + 1,
                               [op |-> "isNull", l |-> l.e, neg |-> isNot]), "NULL_LIT")
        ELSE IF check(s, i, "BETWEEN")
        THEN Then(parsePrimary(s, i + 1),
                  LAMBDA lo : Then(consume(s, lo, "AND"),
                  LAMBDA a : Then(parsePrimary(s, a.at),
                  LAMBDA hi : Parsed(hi.at, [op |-> "between", l |-> l.e, lo |-> lo.e,
                                             hi |-> hi.e, neg |-> negated]))))
        ELSE IF check(s, i, "IN")
        THEN Then(consume(s, Parsed(i + 1, NULL), "LPAREN"),
                  LAMBDA p : Then(parsePrimary(s, p.at),
                  LAMBDA q : Then(Items(s, Parsed(q.at, <<q.e>>)),
                  LAMBDA r : Parsed(r.at, [op |-> "in", l |-> l.e, items |-> r.e,
                                           neg |-> negated]))))
        ELSE IF check(s, i, "LIKE")
        THEN Then(consume(s, Parsed(i + 1, NULL), "STRING"),
                  LAMBDA p : Parsed(p.at, [op |-> "like", l |-> l.e, pattern |-> s[i + 1].v,
                                           neg |-> negated]))
        ELSE IF negated THEN Invalid(i)
        ELSE IF i <= Len(s) /\ s[i].type \in Relational
        THEN Then(parsePrimary(s, i + 1),
                  LAMBDA r : Parsed(r.at, [op |-> s[i].type, l |-> l.e, r |-> r.e]))
        ELSE l

parseComparison(s, i) == Then(parsePrimary(s, i), LAMBDA l : Compared(s, l))

\* Mutant: NOT binds the comparison after it only: NOT NOT is refused
parseNotOnce(s, i) ==
    IF check(s, i, "NOT")
    THEN Then(parseComparison(s, i + 1), LAMBDA r : Parsed(r.at, [op |-> "not", l |-> r.e]))
    ELSE parseComparison(s, i)

parseNot(s, i) ==
    IF check(s, i, "NOT")
    THEN Then(parseNot(s, i + 1), LAMBDA r : Parsed(r.at, [op |-> "not", l |-> r.e]))
    ELSE parseComparison(s, i)

AndTail(s, l) ==
    IF check(s, l.at, "AND")
    THEN Then(parseNot(s, l.at + 1),
              LAMBDA r : AndTail(s, Parsed(r.at, [op |-> "and", l |-> l.e, r |-> r.e])))
    ELSE l

parseAnd(s, i) == Then(parseNot(s, i), LAMBDA l : AndTail(s, l))

OrTail(s, l) ==
    IF check(s, l.at, "OR")
    THEN Then(parseAnd(s, l.at + 1),
              LAMBDA r : OrTail(s, Parsed(r.at, [op |-> "or", l |-> l.e, r |-> r.e])))
    ELSE l

parseOr(s, i) == Then(parseAnd(s, i), LAMBDA l : OrTail(s, l))

\* the whole text; the empty one stands for the constant TRUE
parse(s) ==
    IF s = <<>> THEN Parsed(1, [op |-> "lit", val |-> Bool(TRUE)])
    ELSE Then(parseOr(s, 1), LAMBDA r : IF r.at = Len(s) + 1 THEN r ELSE Invalid(r.at))

-----------------------------------------------------------------------------
(* Evaluation.                                                             *)

extractProperty(props, name) ==
    IF name \notin DOMAIN props \/ props[name].null THEN NULL
    ELSE LET p == props[name]
         IN  CASE p.type = "BOOLEAN" -> Bool(p.v)
               [] p.type \in {"STRING", "CHAR"} -> Str(p.v)
               [] p.type \in {"BYTE", "SHORT", "INTEGER", "LONG", "FLOAT", "DOUBLE"} -> Num(p.v)
               [] OTHER -> NULL

isNumeric(a) == a.k = "num"
selEQ(a, b) == a.k # "null" /\ a.k = b.k /\ a.v = b.v
selLT(a, b) == isNumeric(a) /\ isNumeric(b) /\ a.v < b.v
selLTE(a, b) == selEQ(a, b) \/ selLT(a, b)

\* a pattern as the items of its regular expression
likeToRegex(pattern) ==
    [i \in DOMAIN pattern |->
        CASE pattern[i] = "%" -> [k |-> "any*", c |-> ""]
          [] pattern[i] = "_" -> [k |-> "any", c |-> ""]
          [] OTHER -> [k |-> "char", c |-> pattern[i]]]

RECURSIVE regex_match(_, _)
regex_match(re, s) ==
    IF re = <<>> THEN s = <<>>
    ELSE \/ /\ Head(re).k = "any*"
            /\ \/ regex_match(Tail(re), s)
               \/ s # <<>> /\ Head(s) # "\n" /\ regex_match(re, Tail(s))
         \/ /\ s # <<>>
            /\ \/ Head(re).k = "any" /\ Head(s) # "\n"
               \/ Head(re).k = "char" /\ Head(re).c = Head(s)
            /\ regex_match(Tail(re), Tail(s))

IsBool(a) == a.k = "bool"

EvalOr(a, b) ==
    IF (IsBool(a) /\ a.v) \/ (IsBool(b) /\ b.v) THEN Bool(TRUE)
    ELSE IF IsBool(a) /\ IsBool(b) THEN Bool(FALSE) ELSE NULL

\* Mutant: NULL on the left hides a FALSE on the right
EvalAndStrict(a, b) == IF IsBool(a) /\ IsBool(b) THEN Bool(a.v /\ b.v) ELSE NULL

EvalAnd(a, b) ==
    IF (IsBool(a) /\ ~a.v) \/ (IsBool(b) /\ ~b.v) THEN Bool(FALSE)
    ELSE IF IsBool(a) /\ IsBool(b) THEN Bool(TRUE) ELSE NULL

EvalNot(a) == IF IsBool(a) THEN Bool(~a.v) ELSE NULL

RECURSIVE Eval(_, _)
Eval(e, props) ==
    LET l == Eval(e.l, props)
        r == Eval(e.r, props)
    IN  CASE e.op = "lit" -> e.val
          [] e.op = "prop" -> extractProperty(props, e.name)
          [] e.op = "or" -> EvalOr(l, r)
          [] e.op = "and" -> EvalAnd(l, r)
          [] e.op = "not" -> EvalNot(l)
          [] e.op = "isNull" -> Bool((l.k = "null") # e.neg)
          [] e.op = "between" ->
                Bool((selLTE(Eval(e.lo, props), l) /\ selLTE(l, Eval(e.hi, props))) # e.neg)
          [] e.op = "in" ->
                IF l.k = "null" THEN NULL
                ELSE Bool((\E i \in DOMAIN e.items : selEQ(l, Eval(e.items[i], props))) # e.neg)
          [] e.op = "like" ->
                IF l.k # "str" THEN NULL
                ELSE Bool(regex_match(likeToRegex(e.pattern), l.v) # e.neg)
          [] e.op = "EQ" -> Bool(selEQ(l, r))
          [] e.op = "NEQ" -> Bool(~selEQ(l, r))
          [] e.op = "LT" -> Bool(selLT(l, r))
          [] e.op = "LTE" -> Bool(selLTE(l, r))
          [] e.op = "GT" -> Bool(selLT(r, l))
          [] e.op = "GTE" -> Bool(selLTE(r, l))

matches(e, props) == LET v == Eval(e, props) IN IsBool(v) /\ v.v

-----------------------------------------------------------------------------
(* The grammar the comment of the parser states, read as a definition: the *)
(* trees of a text are those of every way of cutting it into the parts of  *)
(* a production.                                                           *)

Upto(s, i) == SubSeq(s, 1, i - 1)
After(s, i) == SubSeq(s, i + 1, Len(s))
At(s, type) == {i \in DOMAIN s : s[i].type = type}

RECURSIVE OrTrees(_)

PrimaryTrees(s) ==
    IF Len(s) = 1
    THEN {[op |-> "lit", val |-> Literal(s[i])] : i \in UNION {At(s, t) : t \in Literals}}
         \cup {[op |-> "prop", name |-> s[i].v] : i \in At(s, "IDENT")}
    ELSE IF check(s, 1, "LPAREN") /\ check(s, Len(s), "RPAREN")
    THEN OrTrees(SubSeq(s, 2, Len(s) - 1)) ELSE {}

RECURSIVE ItemLists(_)
ItemLists(s) ==
    {<<e>> : e \in PrimaryTrees(s)}
    \cup UNION {{<<e>> \o rest : e \in PrimaryTrees(Upto(s, i)), rest \in ItemLists(After(s, i))} :
                i \in At(s, "COMMA")}

\* the text after the operator at i, and whether a NOT stands before it
Operand(s, i) == IF check(s, i - 1, "NOT") THEN Upto(s, i - 1) ELSE Upto(s, i)
Negated(s, i) == check(s, i - 1, "NOT")

ComparisonTrees(s) ==
    PrimaryTrees(s)
    \cup UNION {{[op |-> "isNull", l |-> e, neg |-> Len(After(s, i)) = 2] :
                  e \in {p \in PrimaryTrees(Upto(s, i)) :
                          \/ Len(After(s, i)) = 1 /\ check(s, i + 1, "NULL_LIT")
                          \/ Len(After(s, i)) = 2 /\ check(s, i + 1, "NOT")
                             /\ check(s, i + 2, "NULL_LIT")}} : i \in At(s, "IS")}
    \cup UNION {UNION {{[op |-> "between", l |-> e, lo |-> a, hi |-> b, neg |-> Negated(s, i)] :
                         e \in PrimaryTrees(Operand(s, i)),
                         a \in PrimaryTrees(SubSeq(s, i + 1, j - 1)),
                         b \in PrimaryTrees(After(s, j))} : j \in {k \in At(s, "AND") : k > i}} :
                i \in At(s, "BETWEEN")}
    \cup UNION {{[op |-> "in", l |-> e, items |-> list, neg |-> Negated(s, i)] :
                  e \in PrimaryTrees(Operand(s, i)),
                  list \in IF check(s, i + 1, "LPAREN") /\ check(s, Len(s), "RPAREN")
                           THEN ItemLists(SubSeq(s, i + 2, Len(s) - 1)) ELSE {}} :
                i \in At(s, "IN")}
    \cup UNION {{[op |-> "like", l |-> e, pattern |-> s[Len(s)].v, neg |-> Negated(s, i)] :
                  e \in IF i = Len(s) - 1 /\ check(s, Len(s), "STRING")
                        THEN PrimaryTrees(Operand(s, i)) ELSE {}} : i \in At(s, "LIKE")}
    \cup UNION {{[op |-> s[i].type, l |-> e, r |-> f] :
                  e \in PrimaryTrees(Upto(s, i)), f \in PrimaryTrees(After(s, i))} :
                i \in UNION {At(s, t) : t \in Relational}}

RECURSIVE NotTrees(_), AndTrees(_)
NotTrees(s) ==
    ComparisonTrees(s)
    \cup IF check(s, 1, "NOT") THEN {[op |-> "not", l |-> e] : e \in NotTrees(Tail(s))} ELSE {}

AndTrees(s) ==
    NotTrees(s) \cup
    UNION {{[op |-> "and", l |-> e, r |-> f] : e \in AndTrees(Upto(s, i)), f \in NotTrees(After(s, i))} :
           i \in At(s, "AND")}

OrTrees(s) ==
    AndTrees(s) \cup
    UNION {{[op |-> "or", l |-> e, r |-> f] : e \in OrTrees(Upto(s, i)), f \in AndTrees(After(s, i))} :
           i \in At(s, "OR")}

-----------------------------------------------------------------------------
(* Three-valued logic as a definition: the truth values a selector may     *)
(* take when every comparison that SQL leaves UNKNOWN (with NULL, or of    *)
(* values that do not compare) is decided one way or the other.            *)

Same(a, b) == IF a.k # "null" /\ a.k = b.k THEN {a.v = b.v} ELSE BOOLEAN
Less(a, b) == IF isNumeric(a) /\ isNumeric(b) THEN {a.v < b.v} ELSE BOOLEAN
AtMost(a, b) == IF Same(a, b) = {TRUE} THEN {TRUE} ELSE Less(a, b)
Inverted(truths, neg) == {t # neg : t \in truths}

\* LIKE of the SQL standard: % stands for any string, _ for any character
Like(pattern, s) ==
    \E cut \in [0..Len(pattern) -> 0..Len(s)] :
        /\ cut[0] = 0 /\ cut[Len(pattern)] = Len(s)
        /\ \A i \in DOMAIN pattern :
              \/ pattern[i] = "%" /\ cut[i] >= cut[i - 1]
              \/ pattern[i] # "%" /\ cut[i] = cut[i - 1] + 1 /\ pattern[i] \in {"_", s[cut[i]]}

RECURSIVE Possible(_, _)
Possible(e, props) ==
    LET l == Eval(e.l, props)
        r == Eval(e.r, props)
        v == Eval(e, props)
    IN  CASE e.op \in {"lit", "prop"} -> IF IsBool(v) THEN {v.v} ELSE BOOLEAN
          [] e.op = "or" -> {a \/ b : a \in Possible(e.l, props), b \in Possible(e.r, props)}
          [] e.op = "and" -> {a /\ b : a \in Possible(e.l, props), b \in Possible(e.r, props)}
          [] e.op = "not" -> Inverted(Possible(e.l, props), TRUE)
          [] e.op = "isNull" -> {(l.k = "null") # e.neg}
          [] e.op = "between" ->
                Inverted({a /\ b : a \in AtMost(Eval(e.lo, props), l),
                                   b \in AtMost(l, Eval(e.hi, props))}, e.neg)
          [] e.op = "in" ->
                LET each == {Same(l, Eval(e.items[i], props)) : i \in DOMAIN e.items}
                IN  Inverted({t \in BOOLEAN : IF t THEN \E c \in each : TRUE \in c
                                              ELSE \A c \in each : FALSE \in c}, e.neg)
          [] e.op = "like" ->
                IF l.k # "str" THEN BOOLEAN ELSE Inverted({Like(e.pattern, l.v)}, e.neg)
          [] e.op = "EQ" -> Same(l, r)
          [] e.op = "NEQ" -> Inverted(Same(l, r), TRUE)
          [] e.op = "LT" -> Less(l, r)
          [] e.op = "LTE" -> AtMost(l, r)
          [] e.op = "GT" -> Less(r, l)
          [] e.op = "GTE" -> AtMost(r, l)

\* no negation anywhere but in IS NOT NULL
RECURSIVE Positive(_)
Positive(e) ==
    CASE e.op \in {"or", "and"} -> Positive(e.l) /\ Positive(e.r)
      [] e.op \in {"not", "NEQ"} -> FALSE
      [] e.op \in {"between", "in", "like"} -> ~e.neg
      [] OTHER -> TRUE
=============================================================================
