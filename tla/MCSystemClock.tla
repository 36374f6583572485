--------------------------- MODULE MCSystemClock ---------------------------
(* SystemClock around the product's target date, around the ends of short,  *)
(* long and leap Februaries, and where the modem's years begin to count.    *)
EXTENDS SystemClock

NewYear == {Date(2022, 1, 1)}
Corners == {Date(2022, 1, 1), Date(2023, 2, 28), Date(2024, 2, 28),
            Date(2022, 4, 30), Date(2019, 12, 31)}
=============================================================================
