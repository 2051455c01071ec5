--------------------------- MODULE MCWorkersHost ---------------------------
(* Three workers, in the order in which Program.cs registers them.           *)
EXTENDS WorkersHost

ThreeWorkers == <<"WhatsApp", "MAX", "Telegram">>
=============================================================================
