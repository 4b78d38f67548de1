----------------------------- MODULE MCTransport -----------------------------
(* Transport with two connections.  One makes a short synchronous call whose *)
(* answer may be longer than ReadLoop takes, one whose request and answer    *)
(* are fragmented, and an asynchronous call whose request is longer than the *)
(* server takes; the other is dialled and never used.                        *)
EXTENDS Transport, TLC

CONSTANTS c1, c2

MCCalls == (c1 :> <<1, 2, 3>>) @@ (c2 :> <<>>)
MCSync == {1, 2}
MCSize == <<1, 3, 4>>
MCReplySizes == <<{1, 4}, {3}, {1}>>
=============================================================================
