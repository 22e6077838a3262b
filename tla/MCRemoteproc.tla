--------------------------- MODULE MCRemoteproc ---------------------------
(***************************************************************************)
(* Remoteproc with two threads and five ids.  The tables: the one of       *)
(* core/rsc_tab.c; one with a second device whose ids are to be chosen;    *)
(* and two fixed devices with a carveout between them.                     *)
(***************************************************************************)
EXTENDS Remoteproc

MCTables ==
  { <<Carveout, Vdev(0, <<1, 2>>)>>,
    <<Carveout, Vdev(0, <<1, 2>>), Vdev(ANY, <<ANY, ANY>>)>>,
    <<Vdev(3, <<4>>), Carveout, Vdev(1, <<0, 2>>)>> }

BeyondTable == { <<Vdev(7, <<0>>)>> }

FirmwareTable == { <<Carveout, Vdev(0, <<1, 2>>)>> }
=============================================================================
