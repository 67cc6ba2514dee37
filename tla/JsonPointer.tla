----------------------------- MODULE JsonPointer -----------------------------
(***************************************************************************)
(* unescape_key_ of document.cpp: the decoding of one reference token of   *)
(* a JSON pointer, called by find_node_const for every token that names an *)
(* object member and by find_container_key for the last one.  A key is a   *)
(* sequence of characters; positions are 1-based, 0 stands for npos.      *)
(*                                                                         *)
(* The loop edits the string in place: each "~0" or "~1" is replaced by    *)
(* one character and the next '~' is searched from the position after the *)
(* replacement, so that the '~' a "~0" produced is not decoded again.      *)
(***************************************************************************)
EXTENDS Integers, Sequences, SequencesExt

(* std::string::find(c, pos): the first position at or after i holding c. *)
find_(s, c, i) ==
    LET at == {j \in i .. Len(s) : s[j] = c}
    IN  IF at = {} THEN 0 ELSE CHOOSE j \in at : \A k \in at : j <= k

(* unescaped[i]: the string's terminating '\0' one past its end.          *)
CharAt(s, i) == IF i <= Len(s) THEN s[i] ELSE "\\0"

(* unescaped.replace(escape, 2, r)                                        *)
Replace2(s, i, r) == SubSeq(s, 1, i - 1) \o <<r>> \o SubSeq(s, i + 2, Len(s))

Ok(k)        == [err |-> "SUCCESS", key |-> k]
InvalidPtr   == [err |-> "INVALID_JSON_POINTER", key |-> <<>>]

(* Faulty variant: the next '~' searched from the replaced position, so   *)
(* the '~' a "~0" leaves is decoded again.                                 *)
unescape_pass_rescan(st) ==
    IF st.escape = 0 \/ st.err # "SUCCESS" THEN st
    ELSE LET c == CharAt(st.s, st.escape + 1)
         IN  IF c \notin {"0", "1"} THEN [st EXCEPT !.err = "INVALID_JSON_POINTER"]
             ELSE LET t == Replace2(st.s, st.escape, IF c = "0" THEN "~" ELSE "/")
                  IN  [s |-> t, escape |-> find_(t, "~", st.escape), err |-> "SUCCESS"]

(* One pass of the do ... while body over [s, escape, err]: the switch on  *)
(* the character after the '~', the replace, and the search for the next  *)
(* '~' (0: the loop has ended).                                            *)
unescape_pass(st) ==
    IF st.escape = 0 \/ st.err # "SUCCESS" THEN st
    ELSE LET c == CharAt(st.s, st.escape + 1)
         IN  IF c \notin {"0", "1"} THEN [st EXCEPT !.err = "INVALID_JSON_POINTER"]
             ELSE LET t == Replace2(st.s, st.escape, IF c = "0" THEN "~" ELSE "/")
                  IN  [s |-> t, escape |-> find_(t, "~", st.escape + 1), err |-> "SUCCESS"]

(* unescape_key_ with the caller's choice of key: a key with no '~' is    *)
(* used as it is (is_unescaped = false), otherwise the decoded copy.  Each *)
(* pass shortens the string by one, so Len(key) passes end the loop.      *)
unescape_key_(key) ==
    LET pass[n \in 0 .. Len(key)] ==
            IF n = 0 THEN [s |-> key, escape |-> find_(key, "~", 1), err |-> "SUCCESS"]
            ELSE unescape_pass(pass[n - 1])
        end == pass[Len(key)]
    IN  IF end.err = "SUCCESS" THEN Ok(end.s) ELSE InvalidPtr

-----------------------------------------------------------------------------
(* RFC 6901 section 4, the reference: read left to right, "~0" is '~',    *)
(* "~1" is '/', and any other '~' makes the pointer invalid.  dec[i] is    *)
(* the decoding of the text from position i on.                            *)
Rfc6901Decode(s) ==
    LET Cons1(ch, r) == IF r.err = "SUCCESS" THEN Ok(<<ch>> \o r.key) ELSE r
        dec[i \in 1 .. Len(s) + 1] ==
            CASE i > Len(s)                           -> Ok(<<>>)
              [] s[i] # "~"                           -> Cons1(s[i], dec[i + 1])
              [] i < Len(s) /\ s[i + 1] \in {"0", "1"} ->
                     Cons1(IF s[i + 1] = "0" THEN "~" ELSE "/", dec[i + 2])
              [] OTHER                                -> InvalidPtr
    IN  dec[1]

====
