SPECIFICATION Spec
CONSTANTS
  Games = {zelda, mario}
  NoGame = NoGame
  MaxMoments = 4
INVARIANTS ReplacedCanComeBack
