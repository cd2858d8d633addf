-------------------------- MODULE MCTorrentRemoval --------------------------
(* TorrentRemoval on a small instance: interchangeable workers.            *)
EXTENDS TorrentRemoval, TLC

WorkerSymmetry == Permutations(Workers)
=============================================================================
