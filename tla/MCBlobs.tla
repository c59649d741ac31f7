------------------------------ MODULE MCBlobs -------------------------------
(* Instance of Blobs for TLC: three threads of one process, one of another.  *)
EXTENDS Blobs, TLC

ProcessOf == "t1" :> "p" @@ "t2" :> "p" @@ "t3" :> "p" @@ "t4" :> "q"
=============================================================================
