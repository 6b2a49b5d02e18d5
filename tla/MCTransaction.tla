---------------------------- MODULE MCTransaction ----------------------------
(***************************************************************************)
(* What a session sends, looked at in two ways side by side: a behaviour   *)
(* is one of the commit protocol, where a message is a name, or one of     *)
(* what a message carries, from the application that makes it to the one   *)
(* that receives it.                                                       *)
(*                                                                         *)
(* Protocol: one producer that has its destination to itself, and two that *)
(* share one.  Content: every selector text of up to three tokens, every   *)
(* text of up to five that the parser reads to its last token, and some    *)
(* longer ones; four kinds of message, three of which the wire format      *)
(* treats in a special way.                                                *)
(***************************************************************************)
EXTENDS MCTransactedSend, Selector, TLC

CONSTANTS q1, q2, text1, text2

VARIABLES view, text, selector, transacted, obj, records, bytes, sets, restarts

contentVars == <<text, selector, transacted, obj, records, bytes, sets, restarts>>

-----------------------------------------------------------------------------
(* The instance of the content.                                            *)

Token(type) == [type |-> type, v |-> <<>>]
X == [type |-> "IDENT", v |-> "x"]
Number(n) == [type |-> "INT_LIT", v |-> n]
A == [type |-> "STRING", v |-> <<"a", "%">>]
Alphabet == {X, Number(1), A} \cup
    {Token(t) : t \in {"NULL_LIT", "LPAREN", "RPAREN", "COMMA", "NOT", "AND", "OR", "EQ", "LT",
                       "IS", "IN", "BETWEEN", "LIKE"}}

Extended(S) == {Append(s, t) : s \in S, t \in Alphabet}
ReadToEnd(s) == parse(s).ok \/ parse(s).at > Len(s)
Extensions(S) == Extended({s \in S : ReadToEnd(s)})

Upto3 == UNION {[1..n -> Alphabet] : n \in 0..3}
Of4 == Extensions([1..3 -> Alphabet])
Of5 == Extensions(Of4)

Comparison(t) == <<X, Token(t), Number(1)>>
In12 == <<Token("IN"), Token("LPAREN"), Number(1), Token("COMMA"), Number(2), Token("RPAREN")>>
Between12 == <<Token("BETWEEN"), Number(1), Token("AND"), Number(2)>>
Longer ==
    {Comparison(t) : t \in Relational}
    \cup {<<X>> \o n \o rest : n \in {<<>>, <<Token("NOT")>>}, rest \in {In12, Between12}}
    \cup {Comparison(s) \o <<Token(c)>> \o n \o Comparison(t) :
            s \in {"EQ", "GTE"}, c \in {"AND", "OR"}, n \in {<<>>, <<Token("NOT")>>}, t \in {"NEQ", "LTE"}}
    \cup {<<X>> \o Between12 \o <<Token("OR")>> \o Comparison("EQ") \o <<Token("AND"), Token("NOT"),
            Token("LPAREN"), X>> \o In12 \o <<Token("RPAREN")>>}

MCUsed == {<<>>, Comparison("EQ"), <<X, Token("IS"), Token("NULL_LIT")>>}
MCTexts == Upto3 \cup Of4 \cup Of5 \cup Longer

Value(type, null, v) == [type |-> type, null |-> null, v |-> v]
MCPropertyValues ==
    {Value("INTEGER", FALSE, 1), Value("DOUBLE", FALSE, 2), Value("BOOLEAN", FALSE, TRUE),
     Value("STRING", FALSE, <<"a", "b">>), Value("STRING", FALSE, <<"b">>),
     Value("INTEGER", TRUE, 0), Value("BYTE_ARRAY", FALSE, <<>>)}
MCSettable == {Value("INTEGER", FALSE, 1), Value("INTEGER", TRUE, 0), Value("BYTE_ARRAY", FALSE, <<>>)}

BeyondFuture == 2   \* the deliveryTime Far of MessageContent
Plain1 == Value("INTEGER", FALSE, 1)
Body(kind, data) == [kind |-> kind, data |-> data]
MCBodies == {Body("TEXT", <<text2>>)}
Message(reliability, priority, deliveryTime, body) ==
    [reliability |-> reliability, priority |-> priority, deliveryTime |-> deliveryTime, body |-> body]
MCCreated ==
    {Message("NOT_PERSISTENT", 4, 0, Body("TEXT", <<text1>>)),
     Message("PERSISTENT", 11, BeyondFuture, Body("TEXT", <<text1>>)),
     Message("PERSISTENT", 4, 0, Body("STREAM", <<Value("BYTE_ARRAY", FALSE, <<>>), Plain1>>)),
     Message("PERSISTENT", 4, 0, Body("MAP", "k" :> Value("INTEGER", TRUE, 0)))}

SendOptions(mode, priority, delay) ==
    [deliveryMode |-> mode, priority |-> priority, deliveryDelay |-> delay]

NoSendOptions == SendOptions("", 0, 0)
Delaying == {SendOptions("PERSISTENT", 0, 1)}

Content == INSTANCE MessageContent WITH
    Selecting <- q1, Plain <- q2, Texts <- MCTexts, Used <- MCUsed, Names <- {"x"},
    PropertyValues <- MCPropertyValues, Settable <- MCSettable, Bodies <- MCBodies,
    Created <- MCCreated, Options <- Delaying, NoOptions <- NoSendOptions,
    ForwardsInTransactions <- FALSE, MaxMessages <- 2, MaxObjects <- 3, MaxSets <- 1,
    MaxCount <- 1, MaxRestarts <- 1, store <- records, buffer <- bytes

-----------------------------------------------------------------------------
OfProtocol == view = "protocol" /\ Next /\ UNCHANGED <<view, contentVars>>
OfContent == view = "content" /\ Content!Next /\ UNCHANGED <<view, vars>>

Begin ==
    /\ view \in {"protocol", "content"} /\ Init /\ Content!Init
    /\ view = "protocol" => text = <<>> /\ ~transacted

SideBySide == Begin /\ [][OfProtocol \/ OfContent]_<<view, vars, contentVars>>

(* The properties of MessageContent, of the behaviours of the content: the *)
(* parser accepts the grammar of its comment and builds its tree           *)
(* (Selector.cpp:287),                                                     *)
ParsesGrammar == Content!ParsesGrammar

(* a selector evaluates to what SQL allows (Selector.cpp:321),             *)
SelectorSound == Content!SelectorSound

(* a received message has the content it was sent with (Message.cpp:170),  *)
ContentKept == Content!ContentKept

(* the headers of a waiting message and its cached bytes agree             *)
(* (Destination.cpp:181),                                                  *)
CacheAgrees == Content!CacheAgrees

(* an acknowledgement removes the record of its own message (Message.h:51), *)
RecordIsOwn == Content!RecordIsOwn

(* and what is received satisfies the selector (Consumer.cpp:228).         *)
ReceivedMatches == Content!ReceivedMatches
=============================================================================
