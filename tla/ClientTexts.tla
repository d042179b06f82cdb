---------------------------- MODULE ClientTexts -----------------------------
(***************************************************************************)
(* What sars reads from the two texts of a request: the stream id from the *)
(* stream url (rtc_peer.cpp) and the ICE name from the SDP                 *)
(* (rtc_server.cpp).  The state is a text that grows by a character at a   *)
(* time, and the two functions are operators on it.                        *)
(*                                                                         *)
(* Positions count from 1, so that 0 is what std::string::npos is to the   *)
(* code: no position, and the one before the first.  The code's arithmetic *)
(* on them is that of integers: npos + 1 is the first position again, and  *)
(* a negative length becomes, on its way through int32_t to size_t, longer *)
(* than any text.                                                          *)
(***************************************************************************)
EXTENDS Integers, SequencesExt

CONSTANT MaxLength    \* bound: the length of the text

ASSUME TextAssumption == MaxLength \in Nat

VARIABLE text

(***************************************************************************)
(* The characters that matter, and any other.  "ufrag" stands for ten: the *)
(* text "ice-ufrag" and the character after it, a colon in every SDP.      *)
(***************************************************************************)
Characters == {"/", "?", "ufrag", "CR", "LF", "other"}

npos == 0

Init == text = << >>

Type(c) ==
    /\ Len(text) < MaxLength
    /\ text' = Append(text, c)

Next == \E c \in Characters : Type(c)

Spec == Init /\ [][Next]_text

-----------------------------------------------------------------------------
(* std::string. *)

\* The first and the last position of a set of them, if there is one.
FirstOf(S) == IF S = {} THEN npos ELSE Min(S)
LastOf(S) == IF S = {} THEN npos ELSE Max(S)

Find(t, c) == FirstOf({i \in DOMAIN t : t[i] = c})

\* find_last_of(c, last): from npos backwards is from the end.
FindLastOf(t, c, last) ==
    LastOf({i \in DOMAIN t : t[i] = c /\ (last = npos \/ i <= last)})

\* The first line end from position "from" on.
FindLineEnd(t, from) ==
    FirstOf({i \in DOMAIN t : /\ from <= i /\ i < Len(t)
                              /\ t[i] = "CR" /\ t[i + 1] = "LF"})

\* substr(from, length): at most to the end.
Substr(t, from, length) ==
    SubSeq(t, from, IF length < 0 \/ from + length - 1 > Len(t)
                    THEN Len(t) ELSE from + length - 1)

-----------------------------------------------------------------------------
(* GetStreamIdFromStreamUrl. *)

\* findpos_endpos: the character before the query, or the end of the text.
EndPosition(url) ==
    IF Find(url, "?") # npos THEN Find(url, "?") - 1 ELSE Len(url) + 1

\* Faulty variant: the last slash is searched in the whole url.
SlashAnywhere(url) == FindLastOf(url, "/", npos)

\* findpos_start: the last slash that is not in the query.
SlashPosition(url) == FindLastOf(url, "/", EndPosition(url))

\* Faulty variant: a url that ends with a slash is not turned down.
ExitsWithoutSlash(url) == SlashPosition(url) = npos

\* The url has no segment to take, and the process exits.
Exits(url) == SlashPosition(url) = npos \/ SlashPosition(url) >= Len(url)

\* Faulty variant: without the + 1, right for a url that has no query.
ShortStreamId(url) ==
    LET start == SlashPosition(url) + 1 IN
    Substr(url, start, EndPosition(url) - start)

StreamId(url) ==
    LET start == SlashPosition(url) + 1 IN
    Substr(url, start, EndPosition(url) - start + 1)

-----------------------------------------------------------------------------
(* getUfragFromSdp. *)

NamePosition(sdp) == Find(sdp, "ufrag") + 1

HasUfrag(sdp) ==
    /\ Find(sdp, "ufrag") # npos
    /\ FindLineEnd(sdp, NamePosition(sdp)) # npos

\* Faulty variant: the last name in the SDP.
LastUfrag(sdp) ==
    LET start == FindLastOf(sdp, "ufrag", npos) + 1 IN
    Substr(sdp, start, FindLineEnd(sdp, NamePosition(sdp)) - start)

Ufrag(sdp) ==
    LET start == NamePosition(sdp) IN
    Substr(sdp, start, FindLineEnd(sdp, start) - start)

-----------------------------------------------------------------------------
(***************************************************************************)
(* Properties.                                                             *)
(***************************************************************************)

Has(t, c) == \E i \in DOMAIN t : t[i] = c

\* The text in two parts, before and from each of its positions.
Splits(t) == {<<SubSeq(t, 1, i - 1), SubSeq(t, i, Len(t))>> : i \in DOMAIN t}

\* The stream is the last segment of the path (rtc_peer.cpp:123-141): what is
\* left of the url before its query, after its last slash.  The arithmetic that
\* wraps makes one exception: a url that begins with its query is all path.
IdIsLastSegment ==
    LET queryless == \A i \in DOMAIN text : text[i] # "?" \/ text[1] = "?"
        path == IF queryless THEN text
                ELSE SubSeq(text, 1, Find(text, "?") - 1)
    IN
    ~Exits(text) =>
        \E pair \in Splits(path) :
            /\ Head(pair[2]) = "/"
            /\ StreamId(text) = Tail(pair[2])
            /\ ~Has(StreamId(text), "/")

\* The process exits for a url without a slash before its query, and for one
\* that ends with its only candidate (rtc_peer.cpp:133), and for no other: not
\* for an empty segment before a query, nor for slashes or a second question
\* mark inside the query.
ExitsWithoutSegment ==
    Exits(text) <=>
        \/ \A pair \in Splits(text) :
              Head(pair[2]) = "/" => Has(pair[1], "?") /\ text[1] # "?"
        \/ text[Len(text)] = "/" /\ (~Has(text, "?") \/ text[1] = "?")

\* A publisher and a player meet although one of them adds a query to the url
\* (rtc_peer.cpp:123): a query changes nothing, unless all of the url is one.
QueryDoesNotMatter ==
    \A pair \in Splits(text) :
        Head(pair[2]) = "?" /\ text[1] # "?" /\ ~Exits(pair[1]) =>
            ~Exits(text) /\ StreamId(text) = StreamId(pair[1])

\* The name is the first in the SDP, up to the end of its line
\* (rtc_server.cpp:17-25), and never runs over it.  What follows, such as the
\* names of other media, cannot change it: a text that is cut off has that name
\* or none.
NameIsFirst ==
    /\ \A pair \in Splits(text) :
          HasUfrag(pair[1]) => HasUfrag(text) /\ Ufrag(text) = Ufrag(pair[1])
    /\ HasUfrag(text) =>
          /\ FindLineEnd(Ufrag(text), 1) = npos
          /\ \E pair \in Splits(text) :
                /\ Head(pair[2]) = "ufrag" /\ ~Has(pair[1], "ufrag")
                /\ IsPrefix(Ufrag(text) \o <<"CR", "LF">>, Tail(pair[2]))

=============================================================================
