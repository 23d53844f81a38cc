---------------------------- MODULE SigmaReplies ----------------------------
(***************************************************************************)
(* What a resource handler is told of a request (external: the Sigma API,  *)
(* a proxy in front of it, and the network), as apiTransport.Do and doAPI  *)
(* hand it on.  Every request may fail with or without having been carried *)
(* out.  A proxy may answer 404 too: with an HTML page or a code of its    *)
(* own ("proxy404"), or with a bare text or JSON that looks as an answer   *)
(* of the API without a code does ("bare404").                             *)
(***************************************************************************)

Replies == {"ok", "404", "bare404", "proxy404", "error"}

\* <<reply, whether the call was carried out>> of a call on an object, live or
\* not: only what exists is acted on and a success was; a missing object is what
\* a 404 of the API means, except that a call that Do repeats may find its own
\* work done.  A 404 of a proxy means nothing.
Answers(live, repeated) ==
    {a \in Replies \X BOOLEAN :
        /\ a[2] => live
        /\ a[1] = "ok" => a[2]
        /\ a[1] = "404" => ~live \/ (repeated /\ a[2])
        /\ a[1] \in {"bare404", "proxy404"} /\ a[2] => repeated}

\* Variant: any 404 counts, whoever answered it.
IsNotFoundAnyPage(reply) == reply \in {"404", "bare404", "proxy404"}

\* IsNotFound: no foreign code and no page; a bare 404 still counts, which its
\* comment calls a limitation inherent to the API.
IsNotFound(reply) == reply \in {"404", "bare404"}
=============================================================================
