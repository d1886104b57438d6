----------------------------- MODULE MCRequests ------------------------------
(* Short lines over few chars: enough for empty and full-length strings,   *)
(* every error of the parser, and arrays that are full to the last char.   *)
EXTENDS Requests

Lower == 97       \* "a"
Other == 98       \* "b"
Upper == 65       \* "A", which is also ALL
Bang == 33        \* not alphanumeric
Tab == 9
Control == 31

User == <<Lower, Quote, Control>>

Sequences(S, n) == UNION {[1 .. m -> S] : m \in 0 .. n}

Tags == {<<Lower>>, <<Other>>, <<Upper>>, <<Lower, Other>>, <<48, 57, 90, 122, Lower>>}

MeantRequests ==
  LET Request(code, text, tags) ==
        [code |-> code, ttweetString |-> text, validHashtags |-> tags]
      texts == Sequences({Lower, Space, Backslash, Tab}, MAX_TWEET_LEN)
      all == {Request(REQ_TWEET, text, tags) : text \in texts, tags \in {<<<<Lower>>>>}}
               \cup {Request(REQ_TWEET, <<Bang>>, tags) : tags \in Sequences(Tags, 2)}
               \cup {Request(code, <<>>, <<tag>>) :
                       code \in {REQ_SUBSCRIBE, REQ_UNSUBSCRIBE}, tag \in Tags}
               \cup {Request(code, <<>>, <<>>) : code \in {REQ_TIMELINE, REQ_EXIT}}
  IN  {r \in all : IsWellFormed(r)}

Join(S, T) == {s \o t : s \in S, t \in T}

TweetA == Word.tweet \o <<Space, Quote, Lower, Quote, Space>>

TweetLines ==
  Join({TweetA}, Sequences({Hash, Lower, Upper, Space, Bang}, 4)
                   \cup UNION {[1 .. n -> {Hash, Lower}] : n \in 5 .. 8})

TextLines ==
  Join(Join({Word.tweet \o <<Space>>}, Sequences({Quote, Space, Lower, Backslash}, 4)),
       {<<>>, <<Quote, Space, Hash, Lower>>, <<Space, Hash, Other>>})

SubscribeLines ==
  Join({Word.subscribe \o <<Space>>}, Sequences({Hash, Lower, Other, Bang, Space}, 4))
    \cup Join({Word.unsubscribe}, Sequences({Hash, Lower, Bang, Space}, 4))

(* Refused when an array is full already.                                  *)
RefusedWhenFull ==
  {Word.tweet \o <<Space, Quote>> \o [i \in 1 .. MAX_TWEET_LEN |-> Lower] \o <<Quote, Hash>>}
    \cup Join(Join({TweetA, Word.subscribe \o <<Space>>},
                  {[i \in 1 .. n |-> Lower] : n \in MAX_HASHTAG_LEN .. MAX_HASHTAG_LEN + 1}),
             {<<Space>>, <<Lower, Lower>>})

WordLines ==
  Sequences({Word[w][1] : w \in DOMAIN Word} \cup {Space}, 2)
    \cup {[i \in 1 .. n |-> Lower] : n \in 1 .. COMMAND_LEN + 2}

OverlongLines ==
  Join({[i \in 1 .. n |-> Lower] : n \in {13, 15, 16, 17, 32}},
       {Word.timeline, Word.exit, TweetA, Word.subscribe \o <<Space, Hash, Other>>})

AllLines == TweetLines \cup TextLines \cup SubscribeLines \cup WordLines
              \cup OverlongLines \cup RefusedWhenFull

OldMemories ==
  {<<EndOfString>>, <<Hash, Other, EndOfString>>,
   <<Quote, Space, Hash, Other, EndOfString>>, <<Space, Hash, Lower, EndOfString>>}

SomeMessages == {<<>>, <<Quote, Backslash, Tab, Control, Lower>>}

SomeTweets == {<<>>, <<<<Lower>>>>, <<<<Quote, Lower>>, <<Backslash>>>>}

Tokens ==
  {<<91>>, <<93>>, <<123>>, <<125>>, <<44>>, <<58>>, <<Space>>,
   <<Quote, Lower, Quote>>, <<Quote, Backslash, 110, Backslash, 110, Quote>>,
   <<Quote, Backslash, 117, 48, 48, 49, 70, Quote>>, <<45, 49>>, <<57, 57, 57>>,
   LiteralText.Null, LiteralText.True, LiteralText.False}

Nest(n) == [i \in 1 .. 2 * n |-> IF i <= n THEN 91 ELSE 93]

ForeignTexts ==
  {FlattenSeq(s) : s \in Sequences(Tokens, 3)}
    \cup {ByteOrderMark \o LiteralText.True, Nest(CJSON_NESTING_LIMIT),
          Nest(CJSON_NESTING_LIMIT + 1), [i \in 1 .. 70 |-> 48],
          <<123>> \o <<Quote, Lower, Quote, 58, 91, 49, 44, Space, 50, 93, 44>>
            \o <<Quote, Quote, 58>> \o LiteralText.Null \o <<125>>,
          <<Quote, Backslash, 47, 194, 169, Quote>>,
          <<Quote, Backslash, 117, 49, 50, 51, Backslash, Backslash, Quote>>}

EdgeCodepoints ==
  {0, 1, 31, 127, 128, 2047, 2048, 55295, 55296, 56319, 56320, 57343, 57344, 65535,
   65536, 66560, 1114111}
==============================================================================
