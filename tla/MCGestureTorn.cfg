CONSTANTS
  weather = weather
  spectrum = spectrum
  anniversary = anniversary
  heartbeat = heartbeat
  NoApp = NoApp
  APP_MAX_NUM = 4
  RegisterOrder <- FourApps
  GetParmApps <- OnlyWeather
  OnEventApps <- OnlyHeartbeat
  DebouncePasses = 3
  LoopDelay = 140
  IMU_LEFT_THRESHOLD <- Left
  IMU_RIGHT_THRESHOLD = 16
  IMU_DOWN_THRESHOLD <- Down
  IMU_UP_THRESHOLD = 178
  Attitudes <- CornerOnly
  NoSample = NoSample
SPECIFICATION GestureSpec
INVARIANTS
  GestureMeasured
