-------------------------------- MODULE MCWeb --------------------------------
(***************************************************************************)
(* A small instance of Web.                                                *)
(***************************************************************************)
EXTENDS Web

CONSTANTS l1, l2,  \* listings of the member
          f1, f2,  \* listings in the queue
          d1, d2,  \* proposals received
          w1, w2, wl  \* wishes

good == [size |-> 1, type |-> "image/jpeg", content |-> "image/jpeg"]
empty == [good EXCEPT !.size = 0]
big == [good EXCEPT !.size = 2]
other == [good EXCEPT !.type = "other", !.content = "other"]
renamed == [good EXCEPT !.content = "image/png"]

MCSelections ==
  {<<good>>, <<good, good>>, <<good, empty>>, <<good, big>>, <<other, good>>, <<good, renamed>>,
   <<good, good, good, good>>, <<>>}

MCRoleSets == {{}, {"USER"}, {"USER", "MODERATOR"}, {"ADMIN"}}
=============================================================================
