---------------------------- MODULE MCFetchGate ----------------------------
(* An instance of FetchGate for TLC. *)
EXTENDS FetchGate, TLC

CONSTANTS r1, r2, r3, page, big

Sizes == (page :> 1) @@ (big :> 2)

Shot(w, k) == [work |-> w, form |-> "good", visual |-> TRUE, class |-> k]
Text(w, k) == [Shot(w, k) EXCEPT !.visual = FALSE]

(* Pictures of one page for two classes, and of a larger page. *)
Pictures == {Shot(page, "reader"), Shot(page, "driver"), Shot(big, "reader")}
Invalid == {[Text(page, "reader") EXCEPT !.form = "forbidden"], Text(page, "none")}

(* Three requests, the last one for other pictures than the first, for text, or
   turned away. *)
ThreeRequests ==
  {(r1 :> a) @@ (r2 :> b) @@ (r3 :> c) :
     a \in {Shot(page, "reader")}, b \in Pictures,
     c \in (Pictures \ {Shot(page, "reader")}) \cup {Text(page, "reader")} \cup Invalid}
=============================================================================
