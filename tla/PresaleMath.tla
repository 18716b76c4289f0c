---------------------------- MODULE PresaleMath ----------------------------
(***************************************************************************)
(* The integer arithmetic of the presale: every amount is a whole number   *)
(* of the smallest unit of a denom, every division truncates.  Uint128's   *)
(* multiply_ratio multiplies in 256 bits, so it has no overflow to model;  *)
(* the plain operators do, and their callers guard them.                   *)
(***************************************************************************)
EXTENDS Naturals, FiniteSetsExt

HUNDRED_PERCENT_BPS == 10000

ONE_PERCENT_BPS == 100

\* The fee kept from a payment of `amount` at `rate` basis points.
PresaleFee(amount, rate) == (amount * rate) \div HUNDRED_PERCENT_BPS

\* The creator's part of a fee: half of it, rounded down.
CreatorFee(fee) == fee \div 2

\* Mutant: both halves rounded down.
PlatformFeeRoundedDown(fee) == fee \div 2

\* Mutant: the platform's half rounded up past the fee.
PlatformFeeRoundedUp(fee) == fee \div 2 + 1

\* The platform's part: whatever the creator's part leaves.
PlatformFee(fee) == fee - CreatorFee(fee)

\* Mutant: the fee counted as submitted.
SubmissionWithFee(amount, rate) == amount

\* What of a payment counts for the presale once the fee is off.
Submission(amount, rate) == amount - PresaleFee(amount, rate)

\* The half of a supply that seeds the pool; claims share the same amount.
Half(supply) == supply \div 2

\* Mutant: the share rounded up.
ClaimableRoundedUp(half, submission, raise) ==
    (half * submission + raise - 1) \div raise

\* Mutant: the division done first.
ClaimableDividedFirst(half, submission, raise) == (half \div raise) * submission

\* Mutant: a divisor that is never zero.
ClaimableOfOneMore(half, submission, raise) == (half * submission) \div (raise + 1)

\* The part of `half` owed to a degen who put `submission` into `raise`.
Claimable(half, submission, raise) == (half * submission) \div raise

\* The sum of the values of the function f over the finite set S.
Total(f, S) == MapThenSumSet(LAMBDA x : f[x], S)
=============================================================================
