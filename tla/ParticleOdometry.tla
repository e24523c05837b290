-------------------------- MODULE ParticleOdometry --------------------------
(***************************************************************************)
(* The two particle filters for odometry.  ParticleOdometry moves its      *)
(* particles by the newest source odometry in a loop that may see one      *)
(* message many times or never; EKFGPFOdometry moves one pose in the       *)
(* callback and draws particles from it for a measurement.  The robot      *)
(* moves by one unit of length in one unit of time, so that a pose is      *)
(* right when it equals its stamp; a message is given by its stamp, which  *)
(* is its pose as well.                                                    *)
(***************************************************************************)
EXTENDS Integers, FiniteSetsExt, SequencesExt, Functions

CONSTANTS
  NumParticles, NumValid,   (* particle_num, valid_particle_num            *)
  MaxTime,                  (* bound on the time                           *)
  MaxError,                 (* bound on the error of a particle            *)
  NoOdom                    (* Python's None                               *)

VARIABLES
  ekf,          (* which of the two filters runs                           *)
  now,
  particles, weights,
  estimate,     (* odom: its pose and its stamp                            *)
  source, measure, measurementUpdated,
  lastSampling, (* last_sampling_time                                      *)
  initialized,  (* how often initialize_odometry has run                   *)
  corrected,    (* how many measurements have been used                    *)
  pfPc

inputVars == <<source, measure, measurementUpdated>>
countVars == <<initialized, corrected>>
pfVars == <<ekf, now, particles, weights, estimate, inputVars, lastSampling, countVars, pfPc>>

Index == 1..NumParticles
Deviation == (-MaxError)..MaxError
Uniform == [i \in Index |-> 1]

Init ==
  /\ ekf = FALSE /\ now = 0 /\ particles = <<>> /\ weights = <<>>
  /\ estimate = [pos |-> 0, stamp |-> 0]
  /\ source = NoOdom /\ measure = NoOdom /\ measurementUpdated = FALSE
  /\ lastSampling = 0 /\ initialized = 0 /\ corrected = 0 /\ pfPc = "off"

Count(n) == (n + 1) % 2

(* initial_distribution, whose mean is one of the particles here;          *)
(* EKFGPFOdometry starts from the pose it is given.                        *)
InitializeOdometry ==
  /\ initialized' = Count(initialized)
  /\ source' = NoOdom /\ measure' = NoOdom /\ measurementUpdated' = FALSE
  /\ IF ekf'
    THEN /\ particles' = <<>> /\ weights' = <<>>
         /\ \E d \in Deviation : estimate' = [pos |-> now + d, stamp |-> now]
    ELSE /\ weights' = Uniform
         /\ \E d \in [Index -> Deviation] :
              /\ particles' = [i \in Index |-> now + d[i]]
              /\ estimate' = [pos |-> now + d[1], stamp |-> now]
Launch ==
  /\ pfPc = "off" /\ pfPc' = "run" /\ ekf' \in BOOLEAN /\ InitializeOdometry
  /\ UNCHANGED <<now, lastSampling, corrected>>
InitTransformCallback ==
  /\ pfPc = "run" /\ UNCHANGED ekf /\ InitializeOdometry
  /\ UNCHANGED <<now, lastSampling, corrected, pfPc>>
Time ==
  /\ pfPc = "run" /\ now < MaxTime /\ now' = now + 1
  /\ UNCHANGED <<ekf, particles, weights, estimate, inputVars, lastSampling, countVars, pfPc>>

-----------------------------------------------------------------------------
(* sampling: every particle moves for the time since the last estimate *)
Sampling == [i \in Index |-> particles[i] + source - estimate.stamp]

(* weighting: the measurement is carried forward to the source odometry;   *)
(* the weights are likelihoods, none below min_weight, and uniform when    *)
(* the covariance has no inverse.                                          *)
MeasuredPose == measure' + (source - measure')
Likelihood(distance) ==
  IF distance = 0 THEN 4 ELSE IF distance \in {-1, 1} THEN 2 ELSE 1
Weighting(prts) == {Uniform, [i \in Index |-> Likelihood(prts[i] - MeasuredPose)]}

(* resampling: a comb of equally spaced selectors over the sums of the     *)
(* weights, which all have the offset "seed" in common                     *)
Cumulated(w, k) ==
  LET sum[n \in 0..k] == IF n = 0 THEN 0 ELSE sum[n - 1] + w[n] IN sum[k]
Selected(w, seed, i) ==
  Min({k \in Index : 2 * seed + 1 + 2 * (i - 1) * Cumulated(w, NumParticles)
                       <= 2 * NumParticles * Cumulated(w, k)})
Resampling(prts, w, seed) == [i \in Index |-> prts[Selected(w, seed, i)]]

(* The estimate is made from the particles with the highest weights; the   *)
(* mean of those is one of them here.  The weights are those from before   *)
(* the resampling: a weight need not be that of the particle at its index. *)
Valid(prts, w) ==
  {prts[i] : i \in {j \in Index :
     Cardinality({k \in Index : w[k] > w[j] \/ (w[k] = w[j] /\ k < j)}) < NumValid}}

Correct(prts) ==
  /\ \E w \in Weighting(prts) :
       \E seed \in 0..(Cumulated(w, NumParticles) - 1) :
         weights' = w /\ particles' = Resampling(prts, w, seed)
  /\ corrected' = Count(corrected)

(* ParticleOdometry *)
OldStamp == estimate.stamp
NewStamp == source
Publish(prts, w) == \E p \in Valid(prts, w) : estimate' = [pos |-> p, stamp |-> NewStamp]
Update ==
  /\ pfPc = "run" /\ ~ekf /\ source # NoOdom
  /\ measurementUpdated' = FALSE
  /\ UNCHANGED measure
  /\ IF measurementUpdated
     THEN Correct(Sampling)
     ELSE particles' = Sampling /\ UNCHANGED <<weights, corrected>>
  /\ Publish(particles', weights')
  /\ UNCHANGED <<ekf, now, source, lastSampling, initialized, pfPc>>
StoreMeasureOdom(t) ==
  /\ ~ekf /\ measurementUpdated' = TRUE
  /\ UNCHANGED <<particles, weights, estimate, lastSampling, corrected>>
StoreSourceOdom == ~ekf /\ UNCHANGED estimate

(* EKFGPFOdometry *)
EkfUpdate(t) ==
  /\ ekf
  /\ LET dt == t - estimate.stamp
     IN IF dt > 0 THEN estimate' = [pos |-> estimate.pos + dt, stamp |-> t]
        ELSE UNCHANGED estimate
SampleFromEkf(t) ==
  /\ ekf /\ UNCHANGED measurementUpdated
  /\ IF source # NoOdom /\ t > lastSampling
     THEN /\ \E d \in [Index -> {-1, 0, 1}] :
               LET prts == [i \in Index |-> estimate.pos + d[i]]
               IN (\A i \in Index : prts[i] - estimate.stamp \in Deviation) /\ Correct(prts)
          /\ \E p \in Valid(particles', weights') : estimate' = [estimate EXCEPT !.pos = p]
          /\ lastSampling' = t
     ELSE UNCHANGED <<particles, weights, estimate, lastSampling, corrected>>

(* the callbacks of both; source odometry arrives in order, perhaps late *)
SourceOdomCallback(t) ==
  /\ pfPc = "run" /\ t <= now /\ (source # NoOdom => t > source) /\ source' = t
  /\ StoreSourceOdom \/ EkfUpdate(t)
  /\ UNCHANGED <<ekf, now, particles, weights, measure, measurementUpdated, lastSampling, countVars, pfPc>>
MeasureOdomCallback(t) ==
  /\ pfPc = "run" /\ t <= now /\ measure' = t
  /\ StoreMeasureOdom(t) \/ SampleFromEkf(t)
  /\ UNCHANGED <<ekf, now, source, initialized, pfPc>>

Next ==
  \/ Launch \/ InitTransformCallback \/ Time \/ Update
  \/ \E t \in 0..MaxTime : SourceOdomCallback(t) \/ MeasureOdomCallback(t)

Spec == Init /\ [][Next]_pfVars

-----------------------------------------------------------------------------
Errors == IF ekf THEN {estimate.pos - estimate.stamp}
          ELSE {particles[i] - estimate.stamp : i \in DOMAIN particles}

(* Motion is applied exactly once: between two corrections the poses stay  *)
(* as wrong as they were, however often the loop uses one message, and     *)
(* whether messages are lost, late, or older than the initial pose.        *)
MotionAppliedOnce ==
  [][initialized' = initialized /\ corrected' = corrected => Errors' = Errors]_pfVars
=============================================================================
