-------------------------------- MODULE Decoding -------------------------------
(***************************************************************************)
(* How CreateSurvey, CreateSubmission and AddToCart take a request from    *)
(* its body: DecodeStrict of internal/validations/validations.go, while    *)
(* the body is still being sent.                                           *)
(*                                                                         *)
(* A body is a sequence of lexemes: a JSON "value" of the type that is     *)
(* asked for; an "other" value, of another type or with a field that the   *)
(* type lacks; an "open" bracket that nothing closes; and "garbage", with  *)
(* which no value starts.  Space between them is left out.                 *)
(***************************************************************************)
EXTENDS Naturals, Sequences

CONSTANT MaxLexemes   \* bound on the length of a body

Lexemes == {"value", "other", "open", "garbage"}

VARIABLES
    body,     \* what the client has sent
    ended,    \* "no", or how the body ended: "eof", or "error" when the connection broke
    read,     \* how many lexemes the decoder has consumed
    stage     \* "decode", "token", and then "accepted" or "refused"

vars == <<body, ended, read, stage>>

Init ==
    /\ body = <<>>
    /\ ended = "no"
    /\ read = 0
    /\ stage = "decode"

Send ==
    /\ ended = "no"
    /\ Len(body) < MaxLexemes
    /\ \E l \in Lexemes : body' = Append(body, l)
    /\ UNCHANGED <<ended, read, stage>>

End ==
    /\ ended = "no"
    /\ ended' \in {"eof", "error"}
    /\ UNCHANGED <<body, read, stage>>

--------------------------------------------------------------------------------

Finish(verdict) == stage' = verdict /\ UNCHANGED <<body, ended, read>>

Unread == Len(body) > read
Lexeme == body[read + 1]

\* decoder.Decode(v), with DisallowUnknownFields: reads one value.  What is open it
\* reads to the end of the body, in vain.
Decode ==
    /\ stage = "decode"
    /\ \/ /\ Unread
          /\ Lexeme = "value"
          /\ read' = read + 1
          /\ stage' = "token"
          /\ UNCHANGED <<body, ended>>
       \/ Unread /\ Lexeme \in {"other", "garbage"} /\ Finish("refused")
       \/ ended # "no" /\ (Unread => Lexeme = "open") /\ Finish("refused")

\* decoder.Token(): the end of the body is what is hoped for.  A value that follows
\* has a first token, and so has one that is not finished: there is no error then.
Token ==
    /\ stage = "token"
    /\ \/ ~Unread /\ ended = "eof" /\ Finish("accepted")
       \/ ~Unread /\ ended = "error" /\ Finish("refused")
       \/ Unread /\ Lexeme \in {"value", "other", "open"} /\ Finish("accepted")
       \/ Unread /\ Lexeme = "garbage" /\ Finish("refused")

Next == Send \/ End \/ Decode \/ Token

Spec == Init /\ [][Next]_vars

--------------------------------------------------------------------------------

\* A request is accepted only if its body is one value and nothing else: DecodeStrict
\* is there "to find the trailing data" (validations.go:91).
TrailingDataRefused == stage = "accepted" => body[1] = "value" /\ Len(body) = 1
================================================================================
