---------------------------- MODULE MCHeartLink ----------------------------
(* HeartLink with one cube of each role, or with the role both have by      *)
(* default.                                                                 *)
EXTENDS HeartLink

Pair == <<"heart", "beat">>
Factory == <<"heart", "heart">>
=============================================================================
