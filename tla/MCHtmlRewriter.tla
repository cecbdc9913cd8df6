--------------------------- MODULE MCHtmlRewriter ---------------------------
(* Small instances of HtmlRewriter for TLC: two tags of one name, one of   *)
(* another; ranges within a file of three characters and just past it.     *)
EXTENDS HtmlRewriter

MCNameOf  == [div |-> "div", divx |-> "div", span |-> "span"]
MCLabels  == DOMAIN MCNameOf
MCRanges  == {r \in (0..4) \X (0..4) : r[1] <= r[2]} \cup {<<1, -1>>, <<-1, 2>>, <<3, 2>>}
MCCode    == {r \in (0..3) \X (0..3) : r[1] <= r[2]}
=============================================================================
