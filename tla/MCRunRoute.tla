----------------------------- MODULE MCRunRoute -----------------------------
(* Small instances of RunRoute for TLC.                                    *)
EXTENDS RunRoute

Text == [kind |-> "text", size |-> 1]
Other == [kind |-> "other", size |-> 0]
Image(size) == [kind |-> "image", id |-> "a", size |-> size]

OneImage == {"a"}
NoImageIds == {}
TextOnly == {Text}
Mixed == {Text, Image(1), Image(2)}
Plain == {Text, Other}
=============================================================================
