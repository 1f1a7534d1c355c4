----------------------------- MODULE LinkMetric -----------------------------
(***************************************************************************)
(* libp-link-metric.c: the ETX estimate a node keeps of the link to one    *)
(* neighbour.  A metric is a record; every function of the file is an      *)
(* operator from the old record to the new one, or to the value returned.  *)
(* All arithmetic stays below 2^16 (see Neighbours_proofs), so the 32-bit  *)
(* accumulator needs no modulus; the uint8_t parameter does.  Left out:    *)
(* children_accumulator, which nothing reads.                              *)
(***************************************************************************)
EXTENDS Integers

CONSTANT MAX_ESTIMATES  \* where num_estimates saturates; 255 in the code

ASSUME EstimatesAssumption == MAX_ESTIMATES \in 1..255

LIBP_LINK_METRIC_UNIT  == 8
INITIAL_LINK_METRIC    == 16
LIBP_LINK_METRIC_ALPHA == (3 * LIBP_LINK_METRIC_UNIT) \div 8
UINT8                  == 256

MAX_ETX == 255 * LIBP_LINK_METRIC_UNIT  \* the estimate of tx = 255

LinkMetricRec ==
  [num_children : {0},
   num_estimates : 0..MAX_ESTIMATES, etx_accumulator : 0..MAX_ETX]

\* The zeroed memory that memb_init() leaves.
ZeroLinkMetric ==
  [num_children |-> 0, num_estimates |-> 0, etx_accumulator |-> 0]

\* Only the children field is initialised: the estimate is left as it was.
libp_link_metric_new(lm) == [lm EXCEPT !.num_children = 0]

-----------------------------------------------------------------------------
(* Exponentially weighted average of the transmissions a packet took; the  *)
(* first sample is the average of itself.                                  *)

Average(tx, etx) ==
  (tx * LIBP_LINK_METRIC_UNIT * LIBP_LINK_METRIC_ALPHA
     + etx * (LIBP_LINK_METRIC_UNIT - LIBP_LINK_METRIC_ALPHA))
  \div LIBP_LINK_METRIC_UNIT

\* The sample tx enters the average, which starts from the value seed.
Sample(lm, tx, seed) ==
  IF tx = 0 THEN lm
  ELSE [lm EXCEPT !.num_estimates   = IF @ < MAX_ESTIMATES THEN @ + 1 ELSE @,
                  !.etx_accumulator = Average(tx, seed)]

FirstOr(lm, tx) ==
  IF lm.num_estimates = 0 THEN tx * LIBP_LINK_METRIC_UNIT ELSE lm.etx_accumulator

\* Mutants: the first sample is averaged with the zeroed accumulator; the
\* parameter is as wide as the caller's.
UpdateTxNoSeed(lm, num_tx) == Sample(lm, num_tx % UINT8, lm.etx_accumulator)
UpdateTxWide(lm, num_tx)   == Sample(lm, num_tx, FirstOr(lm, num_tx))

libp_link_metric_update_tx(lm, num_tx) ==
  LET tx == num_tx % UINT8 IN Sample(lm, tx, FirstOr(lm, tx))

\* A packet given up on counts double; the product is again a uint8_t.
libp_link_metric_update_tx_fail(lm, num_tx) ==
  libp_link_metric_update_tx(lm, (num_tx % UINT8) * 2)

libp_link_metric(lm) ==
  IF lm.num_estimates = 0 THEN INITIAL_LINK_METRIC * LIBP_LINK_METRIC_UNIT
                          ELSE lm.etx_accumulator

libp_link_metric_num_metrics(lm) == lm.num_estimates
=============================================================================
