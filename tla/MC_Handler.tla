------------------------------ MODULE MC_Handler ------------------------------
EXTENDS Handler

(* Three ids, so that the header's sort meets every iteration order. *)
MCIds == {1, 2, 3}

(* a, a" and \ as decoded values. *)
MCOriginals == {<<"a">>, <<"a", "Q">>, <<"BS">>}

(* {"a":"a"}, {"a":"«1»"}, {"a":"a«2»"} and {"a":"«1»\"«3»"}. *)
MCReplyBodies ==
    {Wrap(<<"a">>), Wrap(<<"T1">>), Wrap(<<"a", "T2">>), Wrap(<<"T1", "BS", "Q", "T3">>)}

MCStatuses == {"200", "500"}
================================================================================
